---- MODULE Spec2Model ----
(***************************************************************************)
(* A model of craigpy's incremental indexing core: the file walker, the    *)
(* Merkle snapshot and differ, and the ingest pipeline that reconciles a   *)
(* repository on disk with the SQLite metadata store (repositories, files, *)
(* merkle_nodes) and the ChromaDB collection that holds the chunks.        *)
(*                                                                         *)
(* Paths are sequences of path components (<<"Makefile", "b.py">> is       *)
(* "Makefile/b.py").  A SHA-256 digest is modelled as the sequence of      *)
(* tokens that was hashed, so that the hash is injective; the empty        *)
(* sequence is the empty string "" that hash_file yields on an I/O error   *)
(* and that skipped File rows carry.                                       *)
(***************************************************************************)
EXTENDS Naturals, Integers, Sequences, FiniteSets, TLC

VARIABLES
    layout,   \* the files each path may hold in this behaviour (never changes)
    fs,       \* the repository directory: path -> file, for the files on disk
    repo,     \* the repositories row of the repository (exists, ingested_at)
    files,    \* the files table of the repository: file_path -> row
    merkle,   \* the merkle_nodes table of the repository: node_path -> row
    chroma,   \* the repository's vector collection (exists, docs)
    run,      \* the ingest_repo call in progress (stepwise specification)
    snap,     \* the stores as they were when an interrupted call started
    last,     \* the last event: the operation and what it returned
    prev,     \* the tag of the event before the last one
    dstored,  \* differ specification: the stored merkle_nodes rows
    dorder,   \* differ specification: the items of current_file_hashes, in order
    dhashes,  \* differ specification: current_file_hashes
    dout,     \* differ specification: [done, cs], the Changeset returned
    arg,      \* function specifications: the arguments of the call
    ret,      \* function specifications: [done, val], what the call returned
    client,   \* db/client.py: the process's connection singleton and its database
    other     \* a second ingest_repo call in progress (concurrent specification)

vars == <<layout, fs, repo, files, merkle, chroma, run, snap, last, prev,
          dstored, dorder, dhashes, dout, arg, ret, client, other>>

differVars == <<dstored, dorder, dhashes, dout>>

pureVars == <<arg, ret, client, other>>

----------------------------------------------------------------------------
(* Bounds and program constants *)

\* most failures of a migration statement in one behaviour
MaxFailures == 2

\* largest chunk_index of a chunk given an identifier
MaxChunkIndex == 11

\* longest content, in lines, handed to a chunker
MaxLines == 4

\* longest file list handed to ingest_files
MaxFilesArg == 2

token_target == 500
chunk_threshold == 200
max_file_size_bytes == 10485760
overlap_tokens == 64
BATCH_SIZE == 500

----------------------------------------------------------------------------
(* Generic helpers *)

Range(s) == {s[i] : i \in 1..Len(s)}

\* the partial function f without the keys in S
Without(f, S) == [k \in (DOMAIN f) \ S |-> f[k]]

\* the partial function f with key k set to v
With(f, k, v) == [x \in (DOMAIN f) \cup {k} |-> IF x = k THEN v ELSE f[x]]

\* all orderings of a finite set
Perms(S) == {s \in [1..Cardinality(S) -> S] : \A i, j \in 1..Cardinality(S) : i # j => s[i] # s[j]}

Min(a, b) == IF a < b THEN a ELSE b
Max(a, b) == IF a > b THEN a ELSE b

----------------------------------------------------------------------------
(* Paths and their order *)

ROOT == <<".">>

\* the path components in use, in ascending order of Python's str comparison
\* ('.' < 'M' < 'a' < 'b' < 'c' < 'd.' < 'do' < 'e' < 'l' < 's')
Names == <<".", "Makefile", "a.py", "b.py", "c.py", "d.py", "docs", "e.md", "lib", "src">>

NameRank(n) == CHOOSE i \in 1..Len(Names) : Names[i] = n

\* the files a repository may hold; "Makefile" is either a file or a directory
Paths == {<<"a.py">>, <<"Makefile">>, <<"Makefile", "b.py">>}

\* every path a Merkle node may have
NodePaths == Paths \cup {ROOT}

\* p < q as Python compares the two path strings (for the names in use the
\* comparison by components agrees with the comparison of the joined strings)
RECURSIVE PathLess(_, _)
PathLess(p, q) ==
    IF q = <<>> THEN FALSE
    ELSE IF p = <<>> THEN TRUE
    ELSE IF Head(p) = Head(q) THEN PathLess(Tail(p), Tail(q))
    ELSE NameRank(Head(p)) < NameRank(Head(q))

\* list.sort() / sorted(): insertion into an ascending list
RECURSIVE Insert(_, _)
Insert(x, s) ==
    IF s = <<>> THEN <<x>>
    ELSE IF PathLess(Head(s), x) THEN <<Head(s)>> \o Insert(x, Tail(s))
    ELSE <<x>> \o s

RECURSIVE Sorted(_)
Sorted(s) == IF s = <<>> THEN <<>> ELSE Insert(Head(s), Sorted(Tail(s)))

IsSorted(s) == \A i \in 1..(Len(s) - 1) : PathLess(s[i], s[i + 1])

----------------------------------------------------------------------------
(* The files a repository may hold *)

\* content ids; ChunkTexts gives the texts of the chunks chunk_file cuts a
\* content into ("" and whitespace-only content give no chunk)
Contents == {"v1", "v2", "empty", "big"}

ChunkTexts(c) ==
    CASE c = "v1" -> <<"X", "Y">>
      [] c = "v2" -> <<"X">>
      [] c = "empty" -> <<>>
      [] c = "big" -> <<"B">>

\* a file on disk: its content, its size in bytes, whether it can be opened
\* for reading, whether the root .gitignore matches it, what its first
\* 16 bytes look like ("text", "magic" for a binary signature, "nul"), and
\* whether stat() succeeds on it (it fails on a dangling symbolic link)
MkFile(c, n, r, g) ==
    [content |-> c, size |-> n, readable |-> r, ignored |-> g, header |-> "text",
     statable |-> TRUE]

FileV1 == MkFile("v1", 40, TRUE, FALSE)
FileV2 == MkFile("v2", 20, TRUE, FALSE)
FileEmpty == MkFile("empty", 0, TRUE, FALSE)
\* 402000 bytes: estimate_chunks gives 201 > chunk_threshold
FileBig == MkFile("big", 402000, TRUE, FALSE)
\* a file the process may stat but not open (PermissionError)
FileLocked == MkFile("v1", 40, FALSE, FALSE)
\* a file the root .gitignore matches
FileIgnored == MkFile("v1", 40, TRUE, TRUE)

\* the repositories explored, each giving the files a path may hold: a flat
\* one, where a.py takes every kind beside a Makefile, and a nested one, where
\* "Makefile" is a file at one time and a directory holding b.py at another
FlatLayout ==
    [p \in Paths |->
        CASE p = <<"a.py">> -> {FileV1, FileV2, FileEmpty, FileBig, FileLocked}
          [] p = <<"Makefile">> -> {FileV1}
          [] p = <<"Makefile", "b.py">> -> {}]

NestedLayout ==
    [p \in Paths |->
        CASE p = <<"a.py">> -> {FileV1}
          [] p = <<"Makefile">> -> {FileV1}
          [] p = <<"Makefile", "b.py">> -> {FileV1, FileV2}]

Layouts == {FlatLayout, NestedLayout}

FileKinds == UNION {l[p] : l \in Layouts, p \in Paths}

\* a directory tree: no file lies under a path that is itself a file
IsPrefix(p, q) == Len(p) < Len(q) /\ SubSeq(q, 1, Len(p)) = p

WellFormedFs(f) ==
    \A p \in DOMAIN f, q \in DOMAIN f : ~IsPrefix(p, q)

----------------------------------------------------------------------------
(* indexer/file_filter.py *)

\* Path.suffix.lower() of the names in use
Suffix(n) == IF n \in {"a.py", "b.py"} THEN ".py" ELSE ""

\* the members of TEXT_EXTENSIONS the names in use can hit
TEXT_EXTENSIONS == {".py", ".go", ".txt", ".md", "Makefile", "Dockerfile"}

\* the names in use that start with "."
StartsWithDot(n) == n \in {".", ".git", ".venv", ".env"}

SkipDirNames == {"node_modules", "__pycache__", "venv", ".venv", "dist", "build", "target", ".git"}

is_binary_file(p, f) ==
    LET name == p[Len(p)] IN
    IF Suffix(name) \in TEXT_EXTENSIONS \/ name \in TEXT_EXTENSIONS THEN FALSE
    ELSE IF ~f.readable THEN TRUE
    ELSE IF f.size = 0 THEN FALSE
    ELSE IF f.header = "magic" THEN TRUE
    ELSE f.header = "nul"

\* the estimate with a token taken for one character
estimate_chunks_per_char(file_size, tt) == Max(1, file_size \div tt)

estimate_chunks(file_size, tt) == Max(1, file_size \div (tt * 4))

\* os.walk prunes a directory whose name starts with "." or is excluded
DirPruned(p) ==
    \E i \in 1..(Len(p) - 1) : StartsWithDot(p[i]) \/ p[i] \in SkipDirNames

\* the orders in which os.walk (top-down) may list the files of f: the files of
\* the root directory come before the files of its subdirectories
WalkOrders(f) ==
    {o \in Perms(DOMAIN f) :
        \A i, j \in 1..Len(o) : (Len(o[i]) < Len(o[j])) => i < j}

\* FileWalker.walk over the files in listing order o, from position i on:
\* [result, skipped_files], skipped_files holding (rel_path, reason) pairs
RECURSIVE walk_from(_, _, _, _)
walk_from(f, o, i, acc) ==
    IF i > Len(o) THEN acc
    ELSE
        LET p == o[i]
            file == f[p]
            name == p[Len(p)]
            estimated == estimate_chunks(file.size, token_target)
            next ==
                IF DirPruned(p) THEN acc
                ELSE IF StartsWithDot(name) THEN acc
                ELSE IF file.ignored THEN acc
                ELSE IF is_binary_file(p, file)
                    THEN [acc EXCEPT !.skipped_files = Append(@, <<p, <<"binary">>>>)]
                ELSE IF ~file.statable
                    THEN [acc EXCEPT !.skipped_files = Append(@, <<p, <<"unreadable">>>>)]
                ELSE IF file.size > max_file_size_bytes
                    THEN [acc EXCEPT !.skipped_files =
                            Append(@, <<p, <<"too large (", file.size, " bytes)">>>>)]
                ELSE IF estimated > chunk_threshold
                    THEN [acc EXCEPT !.skipped_files =
                            Append(@, <<p, <<"estimated ", estimated,
                                             " chunks > threshold ", chunk_threshold>>>>)]
                ELSE [acc EXCEPT !.result = Append(@, p)]
        IN walk_from(f, o, i + 1, next)

walk(f, o) == walk_from(f, o, 1, [result |-> <<>>, skipped_files |-> <<>>])

----------------------------------------------------------------------------
(* indexer/merkle.py, chunking/__init__.py *)

\* hash_file: the SHA-256 of the content, "" when the file cannot be read
hash_file(f) == IF f.readable THEN <<f.content>> ELSE <<>>

\* hash_content(text): the SHA-256 digest of a text, taken as injective
hash_content(text) == <<"sha256(">> \o text \o <<")">>

\* the character "\x00"
NUL == "NUL"

\* str(n) of a non-negative integer, as its decimal digits
RECURSIVE format_int(_)
format_int(n) ==
    LET digit(d) == <<"0", "1", "2", "3", "4", "5", "6", "7", "8", "9">>[d + 1]
    IN IF n < 10 THEN <<digit(n)>>
       ELSE format_int(n \div 10) \o <<digit(n % 10)>>

\* a relative path as the text str(path) gives, its components joined by "/"
RECURSIVE PathText(_)
PathText(p) ==
    IF Len(p) = 1 THEN <<p[1]>> ELSE <<p[1], "/">> \o PathText(Tail(p))

\* the identifier with nothing between its three parts
chunk_id_unseparated(file_path, chunk_index, content) ==
    hash_content(file_path \o format_int(chunk_index) \o content)

\* hash_content(f"{file_path}\x00{chunk.chunk_index}\x00{chunk.content}"),
\* file_path and content being texts
chunk_id(file_path, chunk_index, content) ==
    hash_content(file_path \o <<NUL>> \o format_int(chunk_index) \o <<NUL>> \o content)

\* Chunk(content=..., chunk_index=...) as the chunkers build it: __post_init__
\* fills the missing chunk_hash with hash_content(content)
Chunk(content, chunk_index) ==
    [content |-> content, chunk_index |-> chunk_index,
     chunk_hash |-> hash_content(content)]

\* chunk_file, lines 52-54: every chunk gets its identifier
set_chunk_hashes(chunks, file_path) ==
    [i \in 1..Len(chunks) |->
        [chunks[i] EXCEPT !.chunk_hash =
            chunk_id(file_path, chunks[i].chunk_index, chunks[i].content)]]

\* chunk_file: the chunks of a content, each with its index and the identifier
\* hash_content(file_path NUL chunk_index NUL content)
chunk_file(c, file_path) ==
    set_chunk_hashes([i \in 1..Len(ChunkTexts(c)) |-> Chunk(<<ChunkTexts(c)[i]>>, i - 1)],
                     PathText(file_path))

\* hash_content("|".join(child_hashes)): the digest of the joined child hashes
RECURSIVE JoinHashes(_)
JoinHashes(hs) ==
    IF hs = <<>> THEN <<>>
    ELSE IF Len(hs) = 1 THEN hs[1]
    ELSE hs[1] \o <<"|">> \o JoinHashes(Tail(hs))

dir_hash(child_hashes) == <<"sha256(">> \o JoinHashes(child_hashes) \o <<")">>

\* build_merkle_tree, lines 46-54: dir_children after the files o[k..] and, of
\* file o[k], the parts i.. (0-based) have been registered.  dc.keys is the
\* insertion order of the dict, dc.children its lists.
RECURSIVE register_children(_, _, _, _)
register_children(o, k, i, dc) ==
    IF k > Len(o) THEN dc
    ELSE IF i >= Len(o[k]) THEN register_children(o, k + 1, 0, dc)
    ELSE
        LET child == SubSeq(o[k], 1, i + 1)
            parent == IF i > 0 THEN SubSeq(o[k], 1, i) ELSE ROOT
            known == parent \in Range(dc.keys)
            kids == IF known THEN dc.children[parent] ELSE <<>>
            kids2 == IF child \in Range(kids) THEN kids ELSE Append(kids, child)
            dc2 == [keys |-> IF known THEN dc.keys ELSE Append(dc.keys, parent),
                    children |-> With(dc.children, parent, kids2)]
        IN register_children(o, k, i + 1, dc2)

\* a sort key that does not tell the depths of directories apart
DirKeyFlat(d) == IF d # ROOT THEN 0 ELSE 1

\* the sort key of line 58: -d.count("/") for a directory, 1 for "."
DirKey(d) == IF d # ROOT THEN 0 - (Len(d) - 1) ELSE 1

\* sorted(keys, key=DirKey): stable insertion by key
RECURSIVE InsertByKey(_, _)
InsertByKey(d, s) ==
    IF s = <<>> THEN <<d>>
    ELSE IF DirKey(Head(s)) <= DirKey(d) THEN <<Head(s)>> \o InsertByKey(d, Tail(s))
    ELSE <<d>> \o s

RECURSIVE SortedByKey(_)
SortedByKey(s) ==
    IF s = <<>> THEN <<>>
    ELSE InsertByKey(s[Len(s)], SortedByKey(SubSeq(s, 1, Len(s) - 1)))

\* lines 62-65 stopping after the first child that has a node
first_child_hash(children, nodes) ==
    IF children = <<>> THEN <<>>
    ELSE IF Head(children) \in DOMAIN nodes
        THEN <<nodes[Head(children)].node_hash>>
        ELSE <<>>

\* lines 62-65: the hashes of the children that have a node, in child order
RECURSIVE known_child_hashes(_, _)
known_child_hashes(children, nodes) ==
    IF children = <<>> THEN <<>>
    ELSE (IF Head(children) \in DOMAIN nodes
            THEN <<nodes[Head(children)].node_hash>> ELSE <<>>)
         \o known_child_hashes(Tail(children), nodes)

\* lines 60-70: the directories all_dirs[k..] hashed into nodes
RECURSIVE hash_dirs(_, _, _, _)
hash_dirs(all_dirs, k, dc, nodes) ==
    IF k > Len(all_dirs) THEN nodes
    ELSE
        LET dir_path == all_dirs[k]
            children == Sorted(dc.children[dir_path])
            child_hashes == known_child_hashes(children, nodes)
            nodes2 == IF child_hashes # <<>>
                        THEN With(nodes, dir_path,
                                  [node_hash |-> dir_hash(child_hashes), is_directory |-> TRUE])
                        ELSE nodes
        IN hash_dirs(all_dirs, k + 1, dc, nodes2)

\* build_merkle_tree(file_hashes), o the insertion order of file_hashes:
\* node_path -> (node_hash, is_directory)
build_merkle_tree(file_hashes, o) ==
    LET leaves == [p \in DOMAIN file_hashes |->
                      [node_hash |-> file_hashes[p], is_directory |-> FALSE]]
        dc == register_children(o, 1, 0, [keys |-> <<>>, children |-> <<>>])
        all_dirs == SortedByKey(dc.keys)
    IN hash_dirs(all_dirs, 1, dc, leaves)

----------------------------------------------------------------------------
(* indexer/differ.py *)

\* the keys of a table in ORDER BY node_path order
RECURSIVE SetToSeq(_)
SetToSeq(S) ==
    IF S = {} THEN <<>>
    ELSE LET x == CHOOSE y \in S : TRUE IN <<x>> \o SetToSeq(S \ {x})

OrderedKeys(t) == Sorted(SetToSeq(DOMAIN t))

\* stored_files without the is_directory filter of line 50
stored_files_unfiltered(stored_nodes) ==
    [p \in DOMAIN stored_nodes |-> stored_nodes[p].node_hash]

\* lines 46-51: stored_files, the non-directory rows
stored_files_of(stored_nodes) ==
    [p \in {q \in DOMAIN stored_nodes : ~stored_nodes[q].is_directory} |->
        stored_nodes[p].node_hash]

\* lines 54-58, over the items o[k..] of current_file_hashes
RECURSIVE scan_current(_, _, _, _, _)
scan_current(o, k, current, stored_files, cs) ==
    IF k > Len(o) THEN cs
    ELSE
        LET file_path == o[k]
            cs2 == IF file_path \notin DOMAIN stored_files
                     THEN [cs EXCEPT !.added = Append(@, file_path)]
                   ELSE IF stored_files[file_path] # current[file_path]
                     THEN [cs EXCEPT !.modified = Append(@, file_path)]
                   ELSE cs
        IN scan_current(o, k + 1, current, stored_files, cs2)

\* lines 61-63, over the stored file paths so[k..]
RECURSIVE scan_stored(_, _, _, _)
scan_stored(so, k, current, cs) ==
    IF k > Len(so) THEN cs
    ELSE scan_stored(so, k + 1, current,
                     IF so[k] \notin DOMAIN current
                       THEN [cs EXCEPT !.deleted = Append(@, so[k])]
                       ELSE cs)

\* compute_changeset without the three list.sort() calls
sort_changeset_skipped(cs) == cs

\* list.sort() on the three lists, lines 66-68
sort_changeset(cs) ==
    [added |-> Sorted(cs.added), modified |-> Sorted(cs.modified), deleted |-> Sorted(cs.deleted)]

\* compute_changeset(conn, repository_id, current_file_hashes): stored_nodes
\* is the merkle_nodes table, o the item order of current_file_hashes
compute_changeset(stored_nodes, current, o) ==
    LET stored_files == stored_files_of(stored_nodes)
        cs0 == [added |-> <<>>, modified |-> <<>>, deleted |-> <<>>]
        cs1 == scan_current(o, 1, current, stored_files, cs0)
        cs2 == scan_stored(OrderedKeys(stored_files), 1, current, cs1)
    IN sort_changeset(cs2)

\* ingest_repo without the early return of lines 163-166
has_changes_always(cs) == TRUE

has_changes(cs) == cs.added # <<>> \/ cs.modified # <<>> \/ cs.deleted # <<>>

----------------------------------------------------------------------------
(* db/queries.py, db/client.py: the metadata store *)

\* get_connection issues PRAGMA foreign_keys=ON on the singleton connection
\* a connection opened without PRAGMA foreign_keys=ON
foreign_keys_off == FALSE

\* db/client.py line 23
foreign_keys == TRUE

NoRepo == [exists |-> FALSE, ingested_at |-> "NULL"]

\* create_repo: a fresh row, ingested_at NULL
create_repo == [exists |-> TRUE, ingested_at |-> "NULL"]

\* update_repo_ingested_at: ingested_at = now (an UPDATE ... WHERE id = ?)
update_repo_ingested_at(r) == IF r.exists THEN [r EXCEPT !.ingested_at = "now"] ELSE r

\* upsert_file: INSERT ... ON CONFLICT(repository_id, file_path) DO UPDATE
upsert_file(fl, file_path, content_hash, chunk_count, skipped) ==
    With(fl, file_path,
         [content_hash |-> content_hash, chunk_count |-> chunk_count, skipped |-> skipped])

\* a delete_files_by_paths that deletes nothing
delete_files_by_paths_nothing(fl, file_paths) == fl

\* delete_files_by_paths: DELETE ... WHERE file_path IN (...)
delete_files_by_paths(fl, file_paths) ==
    IF file_paths = <<>> THEN fl ELSE Without(fl, Range(file_paths))

\* batch_upsert_merkle_nodes: every node inserted, or updated on conflict
batch_upsert_merkle_nodes(mk, nodes) ==
    [p \in (DOMAIN mk) \cup (DOMAIN nodes) |-> IF p \in DOMAIN nodes THEN nodes[p] ELSE mk[p]]

\* a delete_merkle_nodes_by_paths that deletes nothing
delete_merkle_nodes_by_paths_nothing(mk, node_paths) == mk

\* delete_merkle_nodes_by_paths: DELETE ... WHERE node_path IN (...)
delete_merkle_nodes_by_paths(mk, node_paths) ==
    IF node_paths = <<>> THEN mk ELSE Without(mk, Range(node_paths))

\* delete_repo: DELETE FROM repositories; the files and merkle_nodes rows go
\* with it by ON DELETE CASCADE when foreign keys are enforced
delete_repo(st) ==
    [st EXCEPT !.repo = NoRepo,
               !.files = IF foreign_keys THEN <<>> ELSE @,
               !.merkle = IF foreign_keys THEN <<>> ELSE @]

----------------------------------------------------------------------------
(* indexer/pipeline.py: the vector store *)

NoCollection == [exists |-> FALSE, docs |-> {}]

\* get_or_create_collection
get_or_create_collection(coll) == IF coll.exists THEN coll ELSE [exists |-> TRUE, docs |-> {}]

\* collection.upsert of one batch: a document replaces the one with its id
collection_upsert(docs, batch) ==
    {d \in docs : \A i \in 1..Len(batch) : batch[i].id # d.id} \cup Range(batch)

\* lines 70-75: the batches from offset i (0-based) on
RECURSIVE upsert_batches(_, _, _)
upsert_batches(docs, entries, i) ==
    IF i >= Len(entries) THEN docs
    ELSE upsert_batches(
            collection_upsert(docs, SubSeq(entries, i + 1, Min(i + BATCH_SIZE, Len(entries)))),
            entries, i + BATCH_SIZE)

\* _upsert_chunks_to_chroma: [coll, count]
upsert_chunks_to_chroma(coll, chunks, file_path) ==
    IF chunks = <<>> THEN [coll |-> coll, count |-> 0]
    ELSE
        LET entries == [i \in 1..Len(chunks) |->
                           [id |-> chunks[i].chunk_hash,
                            document |-> chunks[i].content,
                            file_path |-> file_path,
                            chunk_index |-> chunks[i].chunk_index]]
        IN [coll |-> [coll EXCEPT !.docs = upsert_batches(@, entries, 0)],
            count |-> Len(entries)]

\* a _delete_file_chunks_from_chroma that deletes nothing
delete_file_chunks_from_chroma_nothing(coll, file_path) == coll

\* _delete_file_chunks_from_chroma: get(where file_path), then delete by ids
delete_file_chunks_from_chroma(coll, file_path) ==
    LET ids == {d.id : d \in {e \in coll.docs : e.file_path = file_path}}
    IN IF ids # {} THEN [coll EXCEPT !.docs = {d \in @ : d.id \notin ids}] ELSE coll

----------------------------------------------------------------------------
(* indexer/pipeline.py: ingest_repo, one store operation per step *)

\* the stores of the repository
Stores == [repo |-> repo, files |-> files, merkle |-> merkle, chroma |-> chroma]

EmptyChangeset == [added |-> <<>>, modified |-> <<>>, deleted |-> <<>>]

NoResult == [added |-> 0, modified |-> 0, deleted |-> 0, chunks |-> 0, skipped |-> 0]

\* no ingest_repo call in progress
IdleRun ==
    [pc |-> "idle", force |-> FALSE, order |-> <<>>, file_hashes |-> <<>>,
     skipped_files |-> <<>>, changeset |-> EmptyChangeset, queue |-> <<>>,
     content |-> "", total_chunks |-> 0, result |-> NoResult]

\* lines 126-167: the repository row is looked up or created, the tree is
\* walked in listing order o and hashed, and the changeset is computed
ingest_begin(st, f, o, force) ==
    LET w == walk(f, o)
        file_hashes == [p \in Range(w.result) |-> hash_file(f[p])]
        changeset == IF force
                       THEN [added |-> w.result, modified |-> <<>>, deleted |-> <<>>]
                       ELSE compute_changeset(st.merkle, file_hashes, w.result)
    IN [st |-> [st EXCEPT !.repo = IF @.exists THEN @ ELSE create_repo],
        r |-> [pc |-> IF ~force /\ ~has_changes(changeset) THEN "no_changes" ELSE "collection",
               force |-> force,
               order |-> w.result,
               file_hashes |-> file_hashes,
               skipped_files |-> w.skipped_files,
               changeset |-> changeset,
               queue |-> <<>>,
               content |-> "",
               total_chunks |-> 0,
               result |-> NoResult]]

\* the summary of lines 258-264
summary(r) ==
    [added |-> Len(r.changeset.added),
     modified |-> Len(r.changeset.modified),
     deleted |-> Len(r.changeset.deleted),
     chunks |-> r.total_chunks,
     skipped |-> Len(r.skipped_files)]

\* the next store operation of the call, on the files f
ingest_step(st, r, f) ==
    CASE r.pc = "no_changes" ->
            \* lines 163-166
            [st |-> [st EXCEPT !.repo = update_repo_ingested_at(@)],
             r |-> [r EXCEPT !.pc = "done",
                             !.result = [NoResult EXCEPT !.skipped = Len(r.skipped_files)]]]
      [] r.pc = "collection" ->
            \* lines 170-176
            [st |-> [st EXCEPT !.chroma = get_or_create_collection(@)],
             r |-> [r EXCEPT !.pc = "files",
                             !.queue = r.changeset.added \o r.changeset.modified]]
      [] r.pc = "files" ->
            \* lines 177-189
            IF r.queue = <<>> THEN
                [st |-> st, r |-> [r EXCEPT !.pc = "deleted", !.queue = r.changeset.deleted]]
            ELSE IF Head(r.queue) \notin DOMAIN f \/ ~f[Head(r.queue)].readable THEN
                \* read_text raises OSError: the file is passed over
                [st |-> st, r |-> [r EXCEPT !.queue = Tail(@)]]
            ELSE IF Head(r.queue) \in Range(r.changeset.modified) THEN
                [st |-> [st EXCEPT !.chroma = delete_file_chunks_from_chroma(@, Head(r.queue))],
                 r |-> [r EXCEPT !.pc = "upsert_chunks",
                                 !.content = f[Head(r.queue)].content]]
            ELSE [st |-> st, r |-> [r EXCEPT !.pc = "upsert_chunks",
                                             !.content = f[Head(r.queue)].content]]
      [] r.pc = "upsert_chunks" ->
            \* lines 192-201
            LET rel_path == Head(r.queue)
                chunks == chunk_file(r.content, rel_path)
                up == upsert_chunks_to_chroma(st.chroma, chunks, rel_path)
            IN [st |-> [st EXCEPT !.chroma = up.coll],
                r |-> [r EXCEPT !.pc = "upsert_file", !.total_chunks = @ + up.count]]
      [] r.pc = "upsert_file" ->
            \* lines 204-215; the stat() of line 204 stands in no try block
            LET rel_path == Head(r.queue)
                chunks == chunk_file(r.content, rel_path)
            IN IF rel_path \notin DOMAIN f \/ ~f[rel_path].statable THEN
                    [st |-> st, r |-> [r EXCEPT !.pc = "raised"]]
               ELSE
                    [st |-> [st EXCEPT !.files =
                                upsert_file(@, rel_path, r.file_hashes[rel_path],
                                            Len(chunks), FALSE)],
                     r |-> [r EXCEPT !.pc = "files", !.queue = Tail(@), !.content = ""]]
      [] r.pc = "deleted" ->
            \* lines 218-219
            IF r.queue = <<>> THEN
                [st |-> st, r |-> [r EXCEPT !.pc = "delete_rows"]]
            ELSE
                [st |-> [st EXCEPT !.chroma = delete_file_chunks_from_chroma(@, Head(r.queue))],
                 r |-> [r EXCEPT !.queue = Tail(@)]]
      [] r.pc = "delete_rows" ->
            \* lines 220-222
            [st |-> [st EXCEPT !.files =
                        IF r.changeset.deleted # <<>>
                          THEN delete_files_by_paths(@, r.changeset.deleted) ELSE @],
             r |-> [r EXCEPT !.pc = "skipped", !.queue = r.skipped_files]]
      [] r.pc = "skipped" ->
            \* lines 225-241
            IF r.queue = <<>> THEN
                [st |-> st, r |-> [r EXCEPT !.pc = "merkle_upsert"]]
            ELSE
                LET rel_path == Head(r.queue)[1] IN
                [st |-> [st EXCEPT !.files =
                            IF rel_path \in DOMAIN f /\ f[rel_path].statable
                              THEN upsert_file(@, rel_path, <<>>, 0, TRUE) ELSE @],
                 r |-> [r EXCEPT !.queue = Tail(@)]]
      [] r.pc = "merkle_upsert" ->
            \* lines 245-250
            [st |-> [st EXCEPT !.merkle =
                        batch_upsert_merkle_nodes(@, build_merkle_tree(r.file_hashes, r.order))],
             r |-> [r EXCEPT !.pc = "merkle_delete"]]
      [] r.pc = "merkle_delete" ->
            \* lines 253-254
            [st |-> [st EXCEPT !.merkle =
                        IF r.changeset.deleted # <<>>
                          THEN delete_merkle_nodes_by_paths(@, r.changeset.deleted) ELSE @],
             r |-> [r EXCEPT !.pc = "timestamp"]]
      [] r.pc = "timestamp" ->
            \* lines 256-264
            [st |-> [st EXCEPT !.repo = update_repo_ingested_at(@)],
             r |-> [r EXCEPT !.pc = "done", !.result = summary(r)]]

\* the call run to its return, or to the exception that ends it
RECURSIVE ingest_finish(_, _, _)
ingest_finish(st, r, f) ==
    IF r.pc \in {"done", "raised"} THEN [st |-> st, r |-> r]
    ELSE LET c == ingest_step(st, r, f) IN ingest_finish(c.st, c.r, f)

\* ingest_repo(conn, settings, repo_path, force=force), uninterrupted
ingest_repo(st, f, o, force) ==
    LET c == ingest_begin(st, f, o, force) IN ingest_finish(c.st, c.r, f)

\* ingest_files, lines 300-340: the files file_paths[k..]; acc is
\* [st, processed, total_chunks]
RECURSIVE ingest_files_from(_, _, _, _)
ingest_files_from(acc, f, file_paths, k) ==
    IF k > Len(file_paths) THEN acc
    ELSE
        LET rel_path == file_paths[k] IN
        IF rel_path \notin DOMAIN f THEN ingest_files_from(acc, f, file_paths, k + 1)
        ELSE IF ~f[rel_path].readable THEN ingest_files_from(acc, f, file_paths, k + 1)
        ELSE
            LET coll1 == delete_file_chunks_from_chroma(acc.st.chroma, rel_path)
                chunks == chunk_file(f[rel_path].content, rel_path)
                up == upsert_chunks_to_chroma(coll1, chunks, rel_path)
                fl == upsert_file(acc.st.files, rel_path, hash_file(f[rel_path]),
                                  Len(chunks), FALSE)
            IN ingest_files_from(
                    [st |-> [acc.st EXCEPT !.chroma = up.coll, !.files = fl],
                     processed |-> acc.processed + 1,
                     total_chunks |-> acc.total_chunks + up.count],
                    f, file_paths, k + 1)

\* an ingest_files that also upserts a Merkle leaf for every file it processes
ingest_files_with_leaves(st, f, file_paths) ==
    LET a == ingest_files_from(
                [st |-> [st EXCEPT !.chroma = get_or_create_collection(@)],
                 processed |-> 0, total_chunks |-> 0],
                f, file_paths, 1)
        done == {p \in Range(file_paths) : p \in DOMAIN f /\ f[p].readable}
    IN [a EXCEPT !.st.merkle =
            batch_upsert_merkle_nodes(@,
                [p \in done |-> [node_hash |-> hash_file(f[p]), is_directory |-> FALSE]])]

\* ingest_files(conn, settings, repo_name, file_paths) on an existing repository
ingest_files(st, f, file_paths) ==
    ingest_files_from(
        [st |-> [st EXCEPT !.chroma = get_or_create_collection(@)],
         processed |-> 0, total_chunks |-> 0],
        f, file_paths, 1)

\* cli/main.py purge, lines 252-262: delete_collection (a missing collection
\* is "already clean"), then delete_repo
purge(st) == delete_repo([st EXCEPT !.chroma = NoCollection])

----------------------------------------------------------------------------
(* The operations, each a whole call *)

NoStores == [repo |-> NoRepo, files |-> <<>>, merkle |-> <<>>, chroma |-> NoCollection]

\* no interrupted call to remember
NoSnap == [phase |-> "none", st |-> NoStores]

\* what an event leaves in `last`
Event(op, force, cs, result, processed) ==
    [op |-> op, force |-> force,
     added |-> Range(cs.added), modified |-> Range(cs.modified), deleted |-> Range(cs.deleted),
     result |-> result, processed |-> processed]

PlainEvent(op) == Event(op, FALSE, EmptyChangeset, NoResult, 0)

\* the tag under which an event is remembered in `prev`
EventTag(e) ==
    IF e.op = "ingest_repo" /\ ~e.force THEN "ingest_repo"
    ELSE IF e.op = "crash" THEN "crash"
    ELSE "other"

SetStores(st) ==
    /\ repo' = st.repo
    /\ files' = st.files
    /\ merkle' = st.merkle
    /\ chroma' = st.chroma

\* a file is created or overwritten on disk
FsWrite(p, k) ==
    /\ run.pc = "idle"
    /\ k \in layout[p]
    /\ (IF p \in DOMAIN fs THEN fs[p] # k ELSE TRUE)
    /\ WellFormedFs(With(fs, p, k))
    /\ fs' = With(fs, p, k)
    /\ last' = PlainEvent("fs")
    /\ prev' = EventTag(last)
    /\ snap' = IF snap.phase = "recovered" THEN NoSnap ELSE snap
    /\ UNCHANGED <<layout, repo, files, merkle, chroma, run, differVars, pureVars>>

\* a file is removed from disk
FsRemove(p) ==
    /\ run.pc = "idle"
    /\ p \in DOMAIN fs
    /\ fs' = Without(fs, {p})
    /\ last' = PlainEvent("fs")
    /\ prev' = EventTag(last)
    /\ snap' = IF snap.phase = "recovered" THEN NoSnap ELSE snap
    /\ UNCHANGED <<layout, repo, files, merkle, chroma, run, differVars, pureVars>>

\* craigpy ingest <path> [--force], run to completion.  When it is the
\* non-force call that follows an interrupted one, `snap` remembers it.
IngestRepo(force) ==
    /\ run.pc = "idle"
    /\ \E o \in WalkOrders(fs) :
        LET c == ingest_repo(Stores, fs, o, force) IN
        /\ SetStores(c.st)
        /\ last' = Event("ingest_repo", force, c.r.changeset, c.r.result, 0)
    /\ prev' = EventTag(last)
    /\ snap' = IF snap.phase = "crashed" /\ ~force
                THEN [snap EXCEPT !.phase = "recovered"] ELSE NoSnap
    /\ UNCHANGED <<layout, fs, run, differVars, pureVars>>

\* the file lists ingest_files is called with
FileArgs == UNION {[1..n -> Paths] : n \in 1..MaxFilesArg}

\* craigpy ingest-file <files...> --repo <name>; an unknown repository is
\* rejected before any work (line 288)
IngestFiles(file_paths) ==
    /\ run.pc = "idle"
    /\ repo.exists
    /\ LET a == ingest_files(Stores, fs, file_paths) IN
        /\ SetStores(a.st)
        /\ last' = Event("ingest_files", FALSE, EmptyChangeset,
                         [NoResult EXCEPT !.chunks = a.total_chunks], a.processed)
    /\ prev' = EventTag(last)
    /\ UNCHANGED <<layout, fs, run, snap, differVars, pureVars>>

\* craigpy purge <name> --yes; an unknown repository exits with status 1.
\* The event keeps get_file_count of line 241.
Purge ==
    /\ run.pc = "idle"
    /\ repo.exists
    /\ SetStores(purge(Stores))
    /\ last' = Event("purge", FALSE, EmptyChangeset, NoResult, Cardinality(DOMAIN files))
    /\ prev' = EventTag(last)
    /\ UNCHANGED <<layout, fs, run, snap, differVars, pureVars>>

\* compute_changeset has not returned yet
NoChangeset == [done |-> FALSE, cs |-> EmptyChangeset]

\* no function call has returned yet
NoReturn == [done |-> FALSE, val |-> <<>>]

\* MIGRATIONS: the version numbers, in list order
MIGRATIONS == <<1, 2, 3, 4>>

\* a process that has not called get_connection, on a database file that
\* does not exist yet: _connection is None, schema_version holds no row and
\* no migration script has been executed
NoClient ==
    [connection |-> "None",
     pc |-> "idle",
     result |-> "none",
     current |-> 0,
     next |-> 1,
     schema_version |-> {},
     executed |-> [v \in Range(MIGRATIONS) |-> 0],
     failures |-> 0]

PureIdle ==
    /\ arg = <<>>
    /\ ret = NoReturn
    /\ client = NoClient
    /\ other = IdleRun

DifferIdle ==
    /\ dstored = <<>>
    /\ dorder = <<>>
    /\ dhashes = <<>>
    /\ dout = NoChangeset

\* an empty repository directory, nothing indexed yet
Init ==
    /\ layout \in Layouts
    /\ fs = <<>>
    /\ repo = NoRepo
    /\ files = <<>>
    /\ merkle = <<>>
    /\ chroma = NoCollection
    /\ run = IdleRun
    /\ snap = NoSnap
    /\ last = PlainEvent("init")
    /\ prev = "other"
    /\ DifferIdle
    /\ PureIdle

Next ==
    \/ \E p \in Paths, k \in FileKinds : FsWrite(p, k)
    \/ \E p \in Paths : FsRemove(p)
    \/ \E force \in BOOLEAN : IngestRepo(force)
    \/ \E file_paths \in FileArgs : IngestFiles(file_paths)
    \/ Purge

Spec == Init /\ [][Next]_vars

----------------------------------------------------------------------------
(* ingest_repo step by step, with the process terminated at any point *)

\* the repositories explored step by step: one file with two versions, and
\* two files
OneFileLayout ==
    [p \in Paths |-> IF p = <<"a.py">> THEN {FileV1, FileV2} ELSE {}]

TwoFilesLayout ==
    [p \in Paths |->
        CASE p = <<"a.py">> -> {FileV1}
          [] p = <<"Makefile">> -> {FileV2}
          [] p = <<"Makefile", "b.py">> -> {}]

CrashLayouts == {OneFileLayout, TwoFilesLayout}

\* ingest_repo is entered: lines 115-167 up to the changeset
BeginIngest(force) ==
    /\ run.pc = "idle"
    /\ snap.phase = "none"
    /\ \E o \in WalkOrders(fs) :
        LET c == ingest_begin(Stores, fs, o, force) IN
        /\ SetStores(c.st)
        /\ run' = c.r
    /\ snap' = [phase |-> "running", st |-> Stores]
    /\ last' = PlainEvent("begin")
    /\ prev' = EventTag(last)
    /\ UNCHANGED <<layout, fs, differVars, pureVars>>

\* the call in progress performs its next store operation
StepIngest ==
    /\ run.pc \notin {"idle", "done", "raised"}
    /\ LET c == ingest_step(Stores, run, fs) IN
        /\ SetStores(c.st)
        /\ run' = c.r
    /\ UNCHANGED <<layout, fs, snap, last, prev, differVars, pureVars>>

\* the call in progress returns its summary
ReturnIngest ==
    /\ run.pc = "done"
    /\ run' = IdleRun
    /\ snap' = NoSnap
    /\ last' = Event("ingest_repo", run.force, run.changeset, run.result, 0)
    /\ prev' = EventTag(last)
    /\ UNCHANGED <<layout, fs, repo, files, merkle, chroma, differVars, pureVars>>

\* the process is terminated while the call is in progress: what the stores
\* have committed stays, the call's locals are lost
Crash ==
    /\ run.pc \notin {"idle", "done", "raised"}
    /\ run' = IdleRun
    /\ snap' = [snap EXCEPT !.phase = "crashed"]
    /\ last' = PlainEvent("crash")
    /\ prev' = EventTag(last)
    /\ UNCHANGED <<layout, fs, repo, files, merkle, chroma, differVars, pureVars>>

InitCrash ==
    /\ layout \in CrashLayouts
    /\ fs = <<>>
    /\ repo = NoRepo
    /\ files = <<>>
    /\ merkle = <<>>
    /\ chroma = NoCollection
    /\ run = IdleRun
    /\ snap = NoSnap
    /\ last = PlainEvent("init")
    /\ prev = "other"
    /\ DifferIdle
    /\ PureIdle

NextCrash ==
    \/ \E p \in Paths, k \in FileKinds : FsWrite(p, k)
    \/ \E p \in Paths : FsRemove(p)
    \/ \E force \in BOOLEAN : IngestRepo(force)
    \/ \E force \in BOOLEAN : BeginIngest(force)
    \/ StepIngest
    \/ ReturnIngest
    \/ Crash

SpecCrash == InitCrash /\ [][NextCrash]_vars

----------------------------------------------------------------------------
(* What the claims speak of *)

\* the chunks of the collection whose file_path metadata is p
DocsOf(coll, p) == {d \in coll.docs : d.file_path = p}

\* the identifiers of the chunks chunk_file cuts file k at path p into
ChunkIds(p, k) ==
    {chunk_file(k.content, p)[i].chunk_hash : i \in 1..Len(chunk_file(k.content, p))}

IsLeaf(mk, p) == p \in DOMAIN mk /\ ~mk[p].is_directory

\* the walker lists p as indexable
Indexable(f, p) == \E o \in WalkOrders(f) : p \in Range(walk(f, o).result)

\* the last event is a completed ingest_repo
Ingested == last.op = "ingest_repo"

NothingReported(e) ==
    /\ e.result.added = 0
    /\ e.result.modified = 0
    /\ e.result.deleted = 0
    /\ e.result.chunks = 0

NoChanges(e) == e.added = {} /\ e.modified = {} /\ e.deleted = {}

\* C1: a non-force ingest_repo that follows a completed non-force ingest_repo
\* with no filesystem change (or other operation) in between reports
\* added = modified = deleted = chunks = 0.
C1_SecondIngestReportsNothing ==
    (Ingested /\ ~last.force /\ prev = "ingest_repo") => NothingReported(last)

\* a second ingest has run right after one that indexed files
C1_Witness ==
    /\ Ingested /\ ~last.force /\ prev = "ingest_repo"
    /\ NothingReported(last)
    /\ \E p \in DOMAIN files : ~files[p].skipped /\ IsLeaf(merkle, p)
    /\ chroma.docs # {}

\* C2: a non-force ingest_repo whose changeset is empty leaves every File row,
\* every Merkle node and every chunk as it was and sets the repository's
\* last-ingest timestamp.
C2_NoChangesTouchesOnlyTimestamp ==
    [][(last'.op = "ingest_repo" /\ ~last'.force /\ NoChanges(last'))
        => (/\ files' = files
            /\ merkle' = merkle
            /\ chroma' = chroma
            /\ repo'.exists
            /\ repo'.ingested_at = "now")]_vars

\* an ingest that found nothing to do, on a repository with rows and chunks
C2_Witness ==
    /\ Ingested /\ ~last.force /\ NoChanges(last)
    /\ repo.ingested_at = "now"
    /\ files # <<>> /\ merkle # <<>> /\ chroma.docs # {}

\* C3: in every state between calls, a File row with skipped = false has
\* chunk_count equal to the number of chunks of the collection that carry its
\* path.
C3_ChunkCountMatchesCollection ==
    \A p \in DOMAIN files :
        ~files[p].skipped => files[p].chunk_count = Cardinality(DocsOf(chroma, p))

\* C4: after a completed ingest_repo the paths carried by the chunks of the
\* collection are exactly the paths of the File rows with skipped = false.
C4_ChunkPathsAreIndexedFiles ==
    Ingested =>
        {d.file_path : d \in chroma.docs} = {p \in DOMAIN files : ~files[p].skipped}

\* C5: after a completed ingest_repo every File row has a Merkle leaf with its
\* path and node_hash = content_hash.
C5_EveryFileRowHasItsLeaf ==
    Ingested =>
        \A p \in DOMAIN files :
            IsLeaf(merkle, p) /\ merkle[p].node_hash = files[p].content_hash

\* what C6 promises of path p across a step: reported modified, exactly the
\* chunks of the content on disk, a File row with its hash
Reindexed(p) ==
    /\ p \in last'.modified
    /\ last'.result.modified = Cardinality(last'.modified)
    /\ {d.id : d \in DocsOf(chroma', p)} = ChunkIds(p, fs[p])
    /\ p \in DOMAIN files'
    /\ files'[p].content_hash = hash_file(fs[p])
    /\ ~files'[p].skipped

C7_RemovedFileIsForgotten ==
    [][\A p \in Paths :
        (/\ last'.op = "ingest_repo" /\ ~last'.force
         /\ IsLeaf(merkle, p)
         /\ p \notin DOMAIN fs)
        => (/\ p \in last'.deleted
            /\ last'.result.deleted = Cardinality(last'.deleted)
            /\ p \notin DOMAIN files'
            /\ ~IsLeaf(merkle', p)
            /\ DocsOf(chroma', p) = {})]_vars

\* a file was reported deleted while other indexed files remain
C7_Witness ==
    /\ Ingested /\ ~last.force
    /\ \E p \in last.deleted :
        /\ p \notin DOMAIN fs /\ p \notin DOMAIN files
        /\ ~IsLeaf(merkle, p) /\ DocsOf(chroma, p) = {}
    /\ chroma.docs # {}

\* C9: a purge leaves no File row, no Merkle node and no chunk of the
\* repository (and neither the repository row nor the collection).
C9_PurgeLeavesNothing ==
    last.op = "purge" =>
        /\ files = <<>>
        /\ merkle = <<>>
        /\ chroma.docs = {}
        /\ ~chroma.exists
        /\ ~repo.exists

\* a repository that had File rows was purged
C9_Witness ==
    /\ last.op = "purge" /\ last.processed > 0
    /\ files = <<>> /\ merkle = <<>> /\ chroma.docs = {}

----------------------------------------------------------------------------
(* compute_changeset on its own, over stored tables of any shape *)

\* the node hashes compared
DifferHashes == {<<"v1">>, <<"v2">>}

\* the merkle_nodes tables compute_changeset is given: any row, file or
\* directory, under any of the paths (the primary key allows one row a path)
StoredRows == [node_hash : DifferHashes, is_directory : BOOLEAN]

StoredTables ==
    UNION {[D -> StoredRows] : D \in SUBSET Paths}

\* the current_file_hashes mappings
CurrentMappings ==
    UNION {[D -> DifferHashes] : D \in SUBSET Paths}

\* compute_changeset(conn, repository_id, current_file_hashes) returns
ComputeChangeset ==
    /\ ~dout.done
    /\ dout' = [done |-> TRUE, cs |-> compute_changeset(dstored, dhashes, dorder)]
    /\ UNCHANGED <<layout, fs, repo, files, merkle, chroma, run, snap, last, prev,
                   dstored, dorder, dhashes, pureVars>>

InitDiffer ==
    /\ layout = FlatLayout
    /\ fs = <<>>
    /\ repo = NoRepo
    /\ files = <<>>
    /\ merkle = <<>>
    /\ chroma = NoCollection
    /\ run = IdleRun
    /\ snap = NoSnap
    /\ last = PlainEvent("init")
    /\ prev = "other"
    /\ dstored \in StoredTables
    /\ dhashes \in CurrentMappings
    /\ dorder \in Perms(DOMAIN dhashes)
    /\ dout = NoChangeset
    /\ PureIdle

NextDiffer == ComputeChangeset

SpecDiffer == InitDiffer /\ [][NextDiffer]_vars

\* the stored paths that are file leaves
StoredLeaves(t) == {p \in DOMAIN t : ~t[p].is_directory}

\* a sorted list without repetition of exactly the members of S
ListsExactly(s, S) == Range(s) = S /\ Len(s) = Cardinality(S) /\ IsSorted(s)

\* C10: compute_changeset returns as added exactly the current paths with no
\* stored file leaf, as modified exactly the current paths whose stored file
\* leaf has another hash, as deleted exactly the stored file-leaf paths absent
\* from the current mapping; the result is the one the table gives with its
\* directory rows removed.
C10_ChangesetIsLeafSetDiff ==
    dout.done =>
        LET leaves == StoredLeaves(dstored) IN
        /\ ListsExactly(dout.cs.added, {p \in DOMAIN dhashes : p \notin leaves})
        /\ ListsExactly(dout.cs.modified,
                {p \in DOMAIN dhashes : p \in leaves /\ dstored[p].node_hash # dhashes[p]})
        /\ ListsExactly(dout.cs.deleted, leaves \ DOMAIN dhashes)
        /\ dout.cs = compute_changeset([p \in leaves |-> dstored[p]], dhashes, dorder)

\* a changeset with an added, a modified and a deleted path, computed over a
\* table that holds a directory row under a current path and one under an
\* absent path
C10_Witness ==
    /\ dout.done
    /\ dout.cs.added # <<>> /\ dout.cs.modified # <<>> /\ dout.cs.deleted # <<>>
    /\ \E p \in DOMAIN dstored : dstored[p].is_directory /\ p \in DOMAIN dhashes

\* the File rows, the Merkle leaves and the chunks of two store states agree
SameIndex(a, b) ==
    /\ a.files = b.files
    /\ a.chroma.docs = b.chroma.docs
    /\ stored_files_of(a.merkle) = stored_files_of(b.merkle)

\* C8: when a non-force ingest_repo has completed after an interrupted call
\* (and any change of the files in between), the File rows, Merkle leaves and
\* chunks are those one uninterrupted ingest_repo of the files as they are now
\* gives from the stores the interrupted call started on.
C8_NextIngestConverges ==
    (snap.phase = "recovered" /\ Ingested) =>
        \A o \in WalkOrders(fs) :
            SameIndex(Stores, ingest_repo(snap.st, fs, o, FALSE).st)

\* C11: the three lists compute_changeset returns are pairwise disjoint and
\* each is in ascending path order.
C11_ListsDisjointAndSorted ==
    dout.done =>
        /\ Range(dout.cs.added) \cap Range(dout.cs.modified) = {}
        /\ Range(dout.cs.added) \cap Range(dout.cs.deleted) = {}
        /\ Range(dout.cs.modified) \cap Range(dout.cs.deleted) = {}
        /\ IsSorted(dout.cs.added)
        /\ IsSorted(dout.cs.modified)
        /\ IsSorted(dout.cs.deleted)

\* a changeset with two added paths, returned in path order although the
\* mapping listed them in the opposite order, next to a deleted path
C11_Witness ==
    /\ dout.done
    /\ Len(dout.cs.added) = 2
    /\ dorder # Sorted(dorder)
    /\ dout.cs.deleted # <<>>
    /\ IsSorted(dout.cs.added)

----------------------------------------------------------------------------
(* build_merkle_tree on its own, over trees three levels deep *)

\* the files of the trees hashed
MerklePaths ==
    {<<"a.py">>, <<"docs", "e.md">>, <<"src", "b.py">>,
     <<"src", "lib", "c.py">>, <<"src", "lib", "d.py">>}

\* the file hashes: two digests and the "" of a file that could not be read
MerkleHashes == {<<"v1">>, <<"v2">>, <<>>}

\* the file_hashes mappings
MerkleMappings == UNION {[D -> MerkleHashes] : D \in SUBSET MerklePaths}

\* the pipeline at rest, for the specifications of single functions
PipelineIdle ==
    /\ layout = FlatLayout
    /\ fs = <<>>
    /\ repo = NoRepo
    /\ files = <<>>
    /\ merkle = <<>>
    /\ chroma = NoCollection
    /\ run = IdleRun
    /\ snap = NoSnap
    /\ last = PlainEvent("init")
    /\ prev = "other"
    /\ DifferIdle

pipelineVars == <<layout, fs, repo, files, merkle, chroma, run, snap, last, prev>>

\* build_merkle_tree(file_hashes) returns
BuildMerkleTree ==
    /\ ~ret.done
    /\ ret' = [done |-> TRUE, val |-> build_merkle_tree(arg.file_hashes, arg.order)]
    /\ UNCHANGED <<pipelineVars, differVars, arg, client, other>>

InitMerkle ==
    /\ PipelineIdle
    /\ \E h \in MerkleMappings : \E o \in Perms(DOMAIN h) :
            arg = [file_hashes |-> h, order |-> o]
    /\ ret = NoReturn
    /\ client = NoClient
    /\ other = IdleRun

NextMerkle == BuildMerkleTree

SpecMerkle == InitMerkle /\ [][NextMerkle]_vars

\* the directories above the files of mapping h, the root "." included
DirsAbove(h) ==
    {ROOT} \cup UNION {{SubSeq(p, 1, i) : i \in 1..(Len(p) - 1)} : p \in DOMAIN h}

\* the direct children, files and directories, of directory d under mapping h
ChildrenOf(d, h) ==
    IF d = ROOT THEN {SubSeq(p, 1, 1) : p \in DOMAIN h}
    ELSE {SubSeq(p, 1, Len(d) + 1) : p \in {q \in DOMAIN h : Len(q) > Len(d) /\ IsPrefix(d, q)}}

\* the hashes the nodes give the paths of list s, in the order of s
HashesOf(s, nodes) == [i \in 1..Len(s) |-> nodes[s[i]].node_hash]

\* C12: every directory node build_merkle_tree returns has as its hash the
\* digest of the "|"-joined hashes of all its direct children, files and
\* directories, in ascending order of the child paths; every direct child has
\* a node.
C12_DirHashJoinsAllChildren ==
    ret.done =>
        \A d \in DOMAIN ret.val :
            ret.val[d].is_directory =>
                LET kids == ChildrenOf(d, arg.file_hashes) IN
                /\ kids \subseteq DOMAIN ret.val
                /\ ret.val[d].node_hash =
                        dir_hash(HashesOf(Sorted(SetToSeq(kids)), ret.val))

\* a tree in which src holds a file and the directory src/lib, src was
\* registered before src/lib, and src/lib holds two files with different hashes
C12_Witness ==
    /\ ret.done
    /\ arg.order # <<>>
    /\ arg.order[1] = <<"src", "b.py">>
    /\ {<<"src", "lib", "c.py">>, <<"src", "lib", "d.py">>} \subseteq DOMAIN arg.file_hashes
    /\ arg.file_hashes[<<"src", "lib", "c.py">>] # arg.file_hashes[<<"src", "lib", "d.py">>]
    /\ <<"src">> \in DOMAIN ret.val /\ <<"src", "lib">> \in DOMAIN ret.val
    /\ ret.val[<<"src">>].is_directory

\* C13: for a non-empty mapping build_merkle_tree returns every file as a
\* leaf with its hash unchanged and a directory node for "." and for every
\* directory above a file, and nothing else.
C13_EveryFileAndAncestorHasANode ==
    (ret.done /\ arg.file_hashes # <<>>) =>
        /\ \A p \in DOMAIN arg.file_hashes :
                /\ p \in DOMAIN ret.val
                /\ ret.val[p] = [node_hash |-> arg.file_hashes[p], is_directory |-> FALSE]
        /\ \A d \in DirsAbove(arg.file_hashes) :
                d \in DOMAIN ret.val /\ ret.val[d].is_directory
        /\ DOMAIN ret.val = DOMAIN arg.file_hashes \cup DirsAbove(arg.file_hashes)

\* a tree whose only file lies two directories deep, so that src has no file
\* of its own, with nodes for ".", src and src/lib
C13_Witness ==
    /\ ret.done
    /\ DOMAIN arg.file_hashes = {<<"src", "lib", "c.py">>}
    /\ {ROOT, <<"src">>, <<"src", "lib">>} \subseteq DOMAIN ret.val

----------------------------------------------------------------------------
(* chunking/heuristic: the five chunkers, over contents given line by line *)

\* a line of a content: what the chunkers' tests make of it, and its length
\* in characters, line end included
Line(kind, len) == [kind |-> kind, len |-> len]

Blank == Line("blank", 1)               \* empty or whitespace only
Import == Line("import", 12)            \* an import statement
ImportLong == Line("import", 44)        \* an import statement of 11 tokens
ImportOpen == Line("import_open", 9)    \* "import (" opening a Go import block
Close == Line("close", 2)               \* ")"
Decorator == Line("decorator", 8)       \* "@name" (a Java annotation)
Def == Line("def", 12)                  \* a function, class or type declaration
Code == Line("code", 8)                 \* any other short line
CodeBig == Line("code", 1600)           \* any other line, of 400 tokens
CodeLong == Line("code", 2992)          \* any other line, of 748 tokens
Named == Line("named", 8)               \* no block start, yet _extract_symbol
                                        \* finds a name: "run(x);", "let f = ("

\* interface.py estimate_tokens, of a text of n characters
estimate_tokens(n) == Max(1, n \div 4)

\* the characters of the lines of `lines` numbered in list idx
RECURSIVE JoinedLen(_, _)
JoinedLen(idx, lines) ==
    IF idx = <<>> THEN 0 ELSE lines[Head(idx)].len + JoinedLen(Tail(idx), lines)

\* "".join(current_lines).strip() is empty
StripsToNothing(idx, lines) == \A k \in 1..Len(idx) : lines[idx[k]].kind = "blank"

\* the overlap loop (generic.py lines 38-45): of the lines idx[1..k], taken
\* from the last one backwards, those that fit in overlap_tokens
\* an overlap loop that stops after the line that exceeds overlap_tokens
RECURSIVE carry_overlap_past_limit(_, _, _, _, _)
carry_overlap_past_limit(idx, k, lines, ot, acc) ==
    IF k = 0 \/ acc.tok > ot THEN acc
    ELSE carry_overlap_past_limit(idx, k - 1, lines, ot,
            [lines |-> <<idx[k]>> \o acc.lines,
             tok |-> acc.tok + estimate_tokens(lines[idx[k]].len)])

RECURSIVE carry_overlap(_, _, _, _, _)
carry_overlap(idx, k, lines, ot, acc) ==
    IF k = 0 THEN acc
    ELSE
        LET lt == estimate_tokens(lines[idx[k]].len) IN
        IF acc.tok + lt > ot THEN acc
        ELSE carry_overlap(idx, k - 1, lines, ot,
                           [lines |-> <<idx[k]>> \o acc.lines, tok |-> acc.tok + lt])

\* chunks appended with the loop's 0-based line index as start_line
AppendChunkZeroBased(chunks, cur, start_line, end_line, symbol) ==
    Append(chunks, [lines |-> cur, start_line |-> start_line - 1, end_line |-> end_line,
                    chunk_index |-> Len(chunks), symbol |-> symbol])

\* chunks.append(Chunk(...)) with chunk_index = len(chunks); symbol is the
\* number of the line symbol_name and symbol_type were extracted from, 0
\* when they are None
AppendChunk(chunks, cur, start_line, end_line, symbol) ==
    Append(chunks, [lines |-> cur, start_line |-> start_line, end_line |-> end_line,
                    chunk_index |-> Len(chunks), symbol |-> symbol])

\* the same under "if chunk_text.strip():"
AppendChunkIfText(chunks, cur, start_line, end_line, symbol, lines) ==
    IF StripsToNothing(cur, lines) THEN chunks
    ELSE AppendChunk(chunks, cur, start_line, end_line, symbol)

\* chunk_generic, lines 24-67: the loop from line i on; s holds chunks,
\* current_lines (as line numbers), current_start and current_tokens
RECURSIVE generic_loop(_, _, _, _, _)
generic_loop(lines, i, tt, ot, s) ==
    IF i > Len(lines) THEN s
    ELSE
        LET lt == estimate_tokens(lines[i].len) IN
        IF 5 * (s.tokens + lt) > 6 * tt /\ s.cur # <<>> THEN
            LET ov == carry_overlap(s.cur, Len(s.cur), lines, ot, [lines |-> <<>>, tok |-> 0])
            IN generic_loop(lines, i + 1, tt, ot,
                    [chunks |-> AppendChunk(s.chunks, s.cur, s.start, i - 1, 0),
                     cur |-> ov.lines \o <<i>>,
                     start |-> i - Len(ov.lines),
                     tokens |-> ov.tok + lt])
        ELSE IF lines[i].kind = "blank" /\ 5 * s.tokens >= 3 * tt /\ s.cur # <<>> THEN
            generic_loop(lines, i + 1, tt, ot,
                    [chunks |-> AppendChunk(s.chunks, s.cur, s.start, i - 1, 0),
                     cur |-> <<>>,
                     start |-> i + 1,
                     tokens |-> 0])
        ELSE
            generic_loop(lines, i + 1, tt, ot,
                    [s EXCEPT !.cur = Append(@, i), !.tokens = @ + lt])

\* chunk_generic(content, file_path, token_target, overlap_tokens)
chunk_generic(lines, tt, ot) ==
    IF StripsToNothing([k \in 1..Len(lines) |-> k], lines) THEN <<>>
    ELSE
        LET s == generic_loop(lines, 1, tt, ot,
                    [chunks |-> <<>>, cur |-> <<>>, start |-> 1, tokens |-> 0])
        IN IF s.cur # <<>>
             THEN AppendChunk(s.chunks, s.cur, s.start, s.start + Len(s.cur) - 1, 0)
             ELSE s.chunks

\* the header loops of python_lang.py (52-65), typescript.py (80-86) and
\* java.py (58-71): the number of leading import and blank lines
RECURSIVE header_end(_, _)
header_end(lines, i) ==
    IF i > Len(lines) THEN i - 1
    ELSE IF lines[i].kind \in {"import", "import_open", "blank"}
           THEN header_end(lines, i + 1)
           ELSE i - 1

\* the header loop of go.py (73-94), which follows an import block to its ")"
RECURSIVE go_header_end(_, _, _)
go_header_end(lines, i, in_import_block) ==
    IF i > Len(lines) THEN i - 1
    ELSE IF lines[i].kind \in {"import", "import_open"}
           THEN go_header_end(lines, i + 1, lines[i].kind = "import_open")
    ELSE IF in_import_block
           THEN go_header_end(lines, i + 1, lines[i].kind # "close")
    ELSE IF lines[i].kind = "blank"
           THEN go_header_end(lines, i + 1, FALSE)
    ELSE i - 1

\* the header chunk (python_lang.py 67-73 and its like): lines 1..code_start
\* as chunk 0 when they hold more than 10 estimated tokens
header_chunks(lines, code_start) ==
    LET idx == [k \in 1..code_start |-> k] IN
    IF code_start > 0 /\ estimate_tokens(JoinedLen(idx, lines)) > 10
      THEN AppendChunk(<<>>, idx, 1, code_start, 0)
      ELSE <<>>

\* the state the loops after the header start from
AfterHeader(lines, code_start) ==
    [chunks |-> header_chunks(lines, code_start), cur |-> <<>>,
     start |-> code_start + 1, tokens |-> 0, deco |-> FALSE, sym |-> 0]

\* _extract_symbol(line) of line i: a name for a declaration, and for a line
\* that is no block start but matches one of its patterns; None otherwise
extract_symbol(lines, i) == IF lines[i].kind \in {"def", "named"} THEN i ELSE 0

\* a split that closes the chunk on the line that starts the next one
StartAtClosingLate(s, i, lt, lines) ==
    [s EXCEPT !.chunks = AppendChunkIfText(@, s.cur, s.start, i, s.sym, lines),
              !.cur = <<i>>, !.start = i, !.tokens = lt, !.sym = 0]

\* finalize the current chunk and start the next one at line i, with
\* current_symbol = None
StartAt(s, i, lt, lines) ==
    [s EXCEPT !.chunks = AppendChunkIfText(@, s.cur, s.start, i - 1, s.sym, lines),
              !.cur = <<i>>, !.start = i, !.tokens = lt, !.sym = 0]

\* the same at a block start: current_symbol = _extract_symbol(line)
StartBlock(s, i, lt, lines) ==
    [StartAt(s, i, lt, lines) EXCEPT !.sym = extract_symbol(lines, i)]

\* current_lines.append(line); current_tokens += line_tokens
TakeLine(s, i, lt) == [s EXCEPT !.cur = Append(@, i), !.tokens = @ + lt]

\* the same after "if not current_lines: current_symbol = _extract_symbol(line)"
TakeFirstOrNext(s, i, lt, lines) ==
    [TakeLine(s, i, lt) EXCEPT !.sym = IF s.cur = <<>> THEN extract_symbol(lines, i) ELSE @]

\* a final chunk recorded as ending one line before the end of the content
final_chunk_ending_early(s, lines) ==
    IF s.cur # <<>>
      THEN AppendChunkIfText(s.chunks, s.cur, s.start, Len(lines) - 1, s.sym, lines)
      ELSE s.chunks

\* the final chunk (python_lang.py 170-180 and its like)
final_chunk(s, lines) ==
    IF s.cur # <<>>
      THEN AppendChunkIfText(s.chunks, s.cur, s.start, Len(lines), s.sym, lines)
      ELSE s.chunks

\* chunk_python, lines 83-168
RECURSIVE python_loop(_, _, _, _)
python_loop(lines, i, tt, s) ==
    IF i > Len(lines) THEN s
    ELSE
        LET lt == estimate_tokens(lines[i].len) IN
        IF lines[i].kind = "decorator" THEN
            python_loop(lines, i + 1, tt,
                [(IF ~s.deco /\ s.cur # <<>> /\ s.tokens > 0
                    THEN StartAt(s, i, lt, lines)
                    ELSE TakeLine(s, i, lt)) EXCEPT !.deco = TRUE])
        ELSE IF lines[i].kind = "def" THEN
            python_loop(lines, i + 1, tt,
                [(IF /\ s.cur # <<>>
                     /\ s.tokens > 0
                     /\ \A k \in 1..Len(s.cur) : lines[s.cur[k]].kind # "decorator"
                    THEN StartAt(s, i, lt, lines)
                    ELSE TakeLine(s, i, lt)) EXCEPT !.deco = FALSE,
                                                    !.sym = extract_symbol(lines, i)])
        ELSE
            python_loop(lines, i + 1, tt,
                [(IF 2 * (s.tokens + lt) > 3 * tt /\ s.cur # <<>>
                    THEN StartAt(s, i, lt, lines)
                    ELSE TakeLine(s, i, lt)) EXCEPT !.deco = FALSE])

\* chunk_python(content, file_path, token_target, overlap_tokens)
chunk_python(lines, tt, ot) ==
    IF StripsToNothing([k \in 1..Len(lines) |-> k], lines) THEN <<>>
    ELSE
        LET code_start == header_end(lines, 1)
        IN final_chunk(python_loop(lines, code_start + 1, tt,
                                   AfterHeader(lines, code_start)), lines)

\* chunk_typescript, lines 102-163; _is_block_start matches declarations
\* and import statements
RECURSIVE typescript_loop(_, _, _, _, _)
typescript_loop(lines, i, tt, ot, s) ==
    IF i > Len(lines) THEN s
    ELSE
        LET lt == estimate_tokens(lines[i].len) IN
        IF /\ lines[i].kind \in {"def", "import", "import_open"}
           /\ s.cur # <<>>
           /\ s.tokens > 0
        THEN typescript_loop(lines, i + 1, tt, ot, StartBlock(s, i, lt, lines))
        ELSE IF 2 * (s.tokens + lt) > 3 * tt /\ s.cur # <<>> THEN
            LET ov == carry_overlap(s.cur, Len(s.cur), lines, ot, [lines |-> <<>>, tok |-> 0])
            IN typescript_loop(lines, i + 1, tt, ot,
                    [s EXCEPT !.chunks = AppendChunkIfText(@, s.cur, s.start, i - 1,
                                                           s.sym, lines),
                              !.cur = ov.lines \o <<i>>,
                              !.start = i - Len(ov.lines),
                              !.tokens = ov.tok + lt,
                              !.sym = 0])
        ELSE typescript_loop(lines, i + 1, tt, ot, TakeFirstOrNext(s, i, lt, lines))

\* chunk_typescript(content, file_path, token_target, overlap_tokens)
chunk_typescript(lines, tt, ot) ==
    IF StripsToNothing([k \in 1..Len(lines) |-> k], lines) THEN <<>>
    ELSE
        LET code_start == header_end(lines, 1)
        IN final_chunk(typescript_loop(lines, code_start + 1, tt, ot,
                                       AfterHeader(lines, code_start)), lines)

\* chunk_java, lines 85-130; _is_block_start matches declarations,
\* annotations and import statements
RECURSIVE java_loop(_, _, _, _)
java_loop(lines, i, tt, s) ==
    IF i > Len(lines) THEN s
    ELSE
        LET lt == estimate_tokens(lines[i].len) IN
        java_loop(lines, i + 1, tt,
            IF /\ lines[i].kind \in {"def", "decorator", "import", "import_open"}
               /\ s.cur # <<>>
               /\ 10 * s.tokens > 3 * tt
              THEN StartBlock(s, i, lt, lines)
            ELSE IF 2 * (s.tokens + lt) > 3 * tt /\ s.cur # <<>>
              THEN StartAt(s, i, lt, lines)
              ELSE TakeFirstOrNext(s, i, lt, lines))

\* chunk_java(content, file_path, token_target, overlap_tokens)
chunk_java(lines, tt, ot) ==
    IF StripsToNothing([k \in 1..Len(lines) |-> k], lines) THEN <<>>
    ELSE
        LET code_start == header_end(lines, 1)
        IN final_chunk(java_loop(lines, code_start + 1, tt,
                                 AfterHeader(lines, code_start)), lines)

\* chunk_go, lines 108-153; _is_block_start matches declarations and
\* import statements
RECURSIVE go_loop(_, _, _, _)
go_loop(lines, i, tt, s) ==
    IF i > Len(lines) THEN s
    ELSE
        LET lt == estimate_tokens(lines[i].len) IN
        go_loop(lines, i + 1, tt,
            IF /\ lines[i].kind \in {"def", "import", "import_open"}
               /\ s.cur # <<>>
               /\ s.tokens > 0
              THEN StartBlock(s, i, lt, lines)
            ELSE IF 2 * (s.tokens + lt) > 3 * tt /\ s.cur # <<>>
              THEN StartAt(s, i, lt, lines)
              ELSE TakeFirstOrNext(s, i, lt, lines))

\* chunk_go(content, file_path, token_target, overlap_tokens)
chunk_go(lines, tt, ot) ==
    IF StripsToNothing([k \in 1..Len(lines) |-> k], lines) THEN <<>>
    ELSE
        LET code_start == go_header_end(lines, 1, FALSE)
        IN final_chunk(go_loop(lines, code_start + 1, tt,
                               AfterHeader(lines, code_start)), lines)

\* _CHUNKER_MAP.get(ext, chunk_generic)
CHUNKER_MAP(ext) ==
    CASE ext \in {".ts", ".tsx", ".js", ".jsx", ".mjs", ".cjs"} -> "chunk_typescript"
      [] ext \in {".py", ".pyw", ".pyx", ".pyi"} -> "chunk_python"
      [] ext \in {".java", ".kt", ".kts"} -> "chunk_java"
      [] ext = ".go" -> "chunk_go"
      [] OTHER -> "chunk_generic"

\* chunk_file, lines 44-47: the chunker of the file's extension cuts the content
run_chunker(ext, lines, tt, ot) ==
    CASE CHUNKER_MAP(ext) = "chunk_typescript" -> chunk_typescript(lines, tt, ot)
      [] CHUNKER_MAP(ext) = "chunk_python" -> chunk_python(lines, tt, ot)
      [] CHUNKER_MAP(ext) = "chunk_java" -> chunk_java(lines, tt, ot)
      [] CHUNKER_MAP(ext) = "chunk_go" -> chunk_go(lines, tt, ot)
      [] OTHER -> chunk_generic(lines, tt, ot)

----------------------------------------------------------------------------
(* The chunkers alone: any content of up to MaxLines lines, under any of   *)
(* the five chunkers, with the default token_target and overlap_tokens.     *)

ChunkerExts == {".md", ".py", ".ts", ".java", ".go"}

\* the lines a file of the extension is made of
LinesOf(ext) ==
    CASE ext = ".md" -> {Blank, Code, CodeBig}
      [] ext = ".py" -> {Blank, Import, ImportLong, Decorator, Def, Code, CodeBig, CodeLong}
      [] ext = ".ts" -> {Blank, Import, ImportLong, Def, Code, CodeBig, CodeLong, Named}
      [] ext = ".java" -> {Blank, Import, ImportLong, Decorator, Def, Code, CodeBig, Named}
      [] ext = ".go" -> {Blank, Import, ImportLong, ImportOpen, Close, Def, Code, CodeBig}

ContentsOf(ext) == UNION {[1..n -> LinesOf(ext)] : n \in 0..MaxLines}

\* chunk_file(content, file_path, token_target, overlap_tokens) cuts the content
RunChunker ==
    /\ ~ret.done
    /\ ret' = [done |-> TRUE,
               val |-> run_chunker(arg.ext, arg.lines, token_target, overlap_tokens)]
    /\ UNCHANGED <<pipelineVars, differVars, arg, client, other>>

InitChunker ==
    /\ PipelineIdle
    /\ \E ext \in ChunkerExts : \E ls \in ContentsOf(ext) :
            arg = [ext |-> ext, lines |-> ls]
    /\ ret = NoReturn
    /\ client = NoClient
    /\ other = IdleRun

NextChunker == RunChunker

SpecChunker == InitChunker /\ [][NextChunker]_vars

\* C15: every chunk has 1 <= start_line <= end_line <= the number of lines
\* of the content, and start_line never decreases along the returned list.
C15_LineSpansAreOrdered ==
    ret.done =>
        /\ \A i \in 1..Len(ret.val) :
                /\ 1 <= ret.val[i].start_line
                /\ ret.val[i].start_line <= ret.val[i].end_line
                /\ ret.val[i].end_line <= Len(arg.lines)
        /\ \A i \in 1..(Len(ret.val) - 1) :
                ret.val[i].start_line <= ret.val[i + 1].start_line

\* a content cut into several chunks, the second starting inside the first
C15_Witness ==
    /\ ret.done
    /\ Len(ret.val) >= 2
    /\ ret.val[2].start_line <= ret.val[1].end_line

\* the sum over the chunks of end_line - start_line + 1
RECURSIVE SpanSum(_)
SpanSum(chunks) ==
    IF chunks = <<>> THEN 0
    ELSE Head(chunks).end_line - Head(chunks).start_line + 1 + SpanSum(Tail(chunks))

\* the sum over the chunks of the number of lines they hold
RECURSIVE HeldSum(_)
HeldSum(chunks) ==
    IF chunks = <<>> THEN 0 ELSE Len(Head(chunks).lines) + HeldSum(Tail(chunks))

\* the lines of the content that some chunk holds
HeldLines(chunks) == UNION {Range(chunks[i].lines) : i \in 1..Len(chunks)}

\* the number of lines emitted again as overlap
OverlapLines(chunks) == HeldSum(chunks) - Cardinality(HeldLines(chunks))

\* C16: the chunks' line spans sum to at least the number of lines of the
\* content minus the number of lines emitted again as overlap.
C16_SpansAccountForEveryLine ==
    ret.done => SpanSum(ret.val) >= Len(arg.lines) - OverlapLines(ret.val)

----------------------------------------------------------------------------
(* The identifiers chunk_file gives: two chunks of any two files, with     *)
(* paths and contents over characters that could be taken for a part of    *)
(* the index or for the separator.                                          *)

\* file paths, as texts (a path holds no NUL)
IdPaths == {<<"a">>, <<"a", "1">>}

\* chunk contents, as texts
IdContents == UNION {[1..n -> {"1", NUL}] : n \in 0..2}

\* a file path and a chunk a chunker made of that file
IdInputs ==
    {[file_path |-> fp, chunk |-> Chunk(c, i)] :
        fp \in IdPaths, c \in IdContents, i \in 0..MaxChunkIndex}

\* chunk_file sets the identifiers of a chunk of each of two files
SetChunkHashes ==
    /\ ~ret.done
    /\ ret' = [done |-> TRUE,
               val |-> <<set_chunk_hashes(<<arg.a.chunk>>, arg.a.file_path)[1],
                         set_chunk_hashes(<<arg.b.chunk>>, arg.b.file_path)[1]>>]
    /\ UNCHANGED <<pipelineVars, differVars, arg, client, other>>

InitChunkId ==
    /\ PipelineIdle
    /\ \E a \in IdInputs : \E b \in IdInputs : arg = [a |-> a, b |-> b]
    /\ ret = NoReturn
    /\ client = NoClient
    /\ other = IdleRun

NextChunkId == SetChunkHashes

SpecChunkId == InitChunkId /\ [][NextChunkId]_vars

\* C14: chunk_file replaces the chunker's provisional hash, and two chunks
\* have the same identifier exactly when their file_path, chunk_index and
\* content are all equal.
C14_IdentifierTellsPathIndexContent ==
    ret.done =>
        /\ ret.val[1].chunk_hash # arg.a.chunk.chunk_hash
        /\ ret.val[2].chunk_hash # arg.b.chunk.chunk_hash
        /\ ret.val[1].chunk_hash = ret.val[2].chunk_hash
              <=> /\ arg.a.file_path = arg.b.file_path
                  /\ arg.a.chunk.chunk_index = arg.b.chunk.chunk_index
                  /\ arg.a.chunk.content = arg.b.chunk.content

\* two chunks of one file whose path, index and content read the same when
\* written one after the other, with different identifiers
C14_Witness ==
    /\ ret.done
    /\ arg.a.file_path = arg.b.file_path
    /\ arg.a.chunk.chunk_index # arg.b.chunk.chunk_index
    /\ format_int(arg.a.chunk.chunk_index) \o arg.a.chunk.content
         = format_int(arg.b.chunk.chunk_index) \o arg.b.chunk.content
    /\ ret.val[1].chunk_hash # ret.val[2].chunk_hash

----------------------------------------------------------------------------
(* FileWalker.walk alone, over directory trees holding every kind of file  *)
(* the walker tells apart.                                                  *)

\* 200000 bytes: estimate_chunks gives 100
FileLong == MkFile("v1", 200000, TRUE, FALSE)
\* one byte over max_file_size_bytes
FileHuge == MkFile("big", max_file_size_bytes + 1, TRUE, FALSE)
\* files starting with a binary signature, or holding a zero byte early
FileMagic == [FileV1 EXCEPT !.header = "magic"]
FileNul == [FileV1 EXCEPT !.header = "nul"]
FileHugeMagic == [FileHuge EXCEPT !.header = "magic"]
\* a dangling symbolic link: listed by os.walk, neither opened nor stat-ed
FileDangling == [FileLocked EXCEPT !.statable = FALSE]

\* the tree explored: for each path the files it may hold
WalkerLayout ==
    (<<"a.py">> :> {FileV1, FileLong, FileBig, FileHuge, FileMagic, FileIgnored,
                    FileLocked, FileDangling})
    @@ (<<"data">> :> {FileV1, FileEmpty, FileBig, FileHuge, FileMagic, FileNul,
                       FileHugeMagic, FileIgnored, FileLocked, FileDangling})
    @@ (<<".env">> :> {FileV1})
    @@ (<<".git", "a.py">> :> {FileBig})
    @@ (<<"node_modules", "a.py">> :> {FileV1})
    @@ (<<"src", "b.py">> :> {FileV1, FileBig})

WalkerTrees ==
    UNION {{f \in [D -> UNION {WalkerLayout[p] : p \in D}] :
                \A p \in D : f[p] \in WalkerLayout[p]} :
           D \in SUBSET DOMAIN WalkerLayout}

\* FileWalker(repo_path, config).walk() returns
Walk ==
    /\ ~ret.done
    /\ ret' = [done |-> TRUE, val |-> walk(arg.fs, arg.order)]
    /\ UNCHANGED <<pipelineVars, differVars, arg, client, other>>

InitWalker ==
    /\ PipelineIdle
    /\ \E f \in WalkerTrees : \E o \in WalkOrders(f) : arg = [fs |-> f, order |-> o]
    /\ ret = NoReturn
    /\ client = NoClient
    /\ other = IdleRun

NextWalker == Walk

SpecWalker == InitWalker /\ [][NextWalker]_vars

\* the file at p is in no excluded or dot-prefixed directory, is not
\* dot-prefixed and is not matched by .gitignore
Walked(f, p) ==
    /\ \A i \in 1..(Len(p) - 1) : ~StartsWithDot(p[i]) /\ p[i] \notin SkipDirNames
    /\ ~StartsWithDot(p[Len(p)])
    /\ ~f[p].ignored

\* the rule that rejects the file at p, the first failing one winning;
\* a file has a size when stat() gives one
RejectedBy(f, p) ==
    IF is_binary_file(p, f[p]) THEN "binary"
    ELSE IF ~f[p].statable THEN "unreadable"
    ELSE IF f[p].size > max_file_size_bytes THEN "size"
    ELSE IF Max(1, f[p].size \div (token_target * 4)) > chunk_threshold THEN "threshold"
    ELSE "none"

\* the reason the walker records for a rule
ReasonOf(rule, size) ==
    CASE rule = "binary" -> <<"binary">>
      [] rule = "size" -> <<"too large (", size, " bytes)">>
      [] rule = "threshold" ->
            <<"estimated ", Max(1, size \div (token_target * 4)),
              " chunks > threshold ", chunk_threshold>>

\* C17: walk returns exactly the walked files no rule rejects; a file the
\* binary, size or threshold rule rejects is in skipped_files exactly once,
\* with that rule's reason, and no returned file is in skipped_files.
C17_WalkReturnsAndSkipsByRule ==
    ret.done =>
        LET f == arg.fs
            w == ret.val
            entries(p) == {i \in 1..Len(w.skipped_files) : w.skipped_files[i][1] = p}
        IN /\ Range(w.result) = {p \in DOMAIN f : Walked(f, p) /\ RejectedBy(f, p) = "none"}
           /\ Cardinality(Range(w.result)) = Len(w.result)
           /\ \A p \in DOMAIN f :
                Walked(f, p) /\ RejectedBy(f, p) \in {"binary", "size", "threshold"} =>
                    /\ Cardinality(entries(p)) = 1
                    /\ \A i \in entries(p) :
                            w.skipped_files[i][2] = ReasonOf(RejectedBy(f, p), f[p].size)
           /\ \A p \in Range(w.result) : entries(p) = {}

\* a walk that returns a file, skips a binary file that is also too large
\* as binary, and skips another one by the threshold
C17_Witness ==
    /\ ret.done
    /\ ret.val.result # <<>>
    /\ \E i, j \in 1..Len(ret.val.skipped_files) :
            /\ ret.val.skipped_files[i][2] = <<"binary">>
            /\ arg.fs[ret.val.skipped_files[i][1]].size > max_file_size_bytes
            /\ ret.val.skipped_files[j][2][1] = "estimated "

----------------------------------------------------------------------------
(* The File rows of skipped files, checked on the pipeline (Spec) *)

\* the walker lists p in skipped_files
Skipped(f, p) ==
    \E o \in WalkOrders(f) :
        \E i \in 1..Len(walk(f, o).skipped_files) : walk(f, o).skipped_files[i][1] = p

\* the File row of p is that of a skipped file
SkippedRow(p) ==
    /\ p \in DOMAIN files
    /\ files[p].skipped
    /\ files[p].content_hash = <<>>
    /\ files[p].chunk_count = 0

\* C18: after every completed ingest_repo, runs that detect no change
\* included, every file the walker skipped in that run and that can be
\* stat-ed has a File row with skipped = true, content_hash = "" and
\* chunk_count = 0.
C18_SkippedFileHasSkippedRow ==
    Ingested =>
        \A p \in DOMAIN fs : (Skipped(fs, p) /\ fs[p].statable) => SkippedRow(p)

\* C19: between calls, no chunk of the collection carries the path of a File
\* row with skipped = true.
C19_NoChunkOfSkippedRow ==
    \A d \in chroma.docs :
        d.file_path \in DOMAIN files => ~files[d.file_path].skipped

\* C20: after a completed ingest_repo every File row has a path the walker
\* saw in that run, as indexable or as skipped.
C20_EveryRowWasWalked ==
    Ingested =>
        \A p \in DOMAIN files :
            p \in DOMAIN fs /\ (Indexable(fs, p) \/ Skipped(fs, p))

----------------------------------------------------------------------------
(* ingest_repo step by step on a directory that other processes change     *)
(* while the call is in progress                                            *)

\* a file is removed from disk while ingest_repo runs
Vanish(p) ==
    /\ run.pc \notin {"idle", "done", "raised"}
    /\ p \in DOMAIN fs
    /\ fs' = Without(fs, {p})
    /\ UNCHANGED <<layout, repo, files, merkle, chroma, run, snap, last, prev,
                   differVars, pureVars>>

\* the call in progress ends with the exception it raised
RaiseIngest ==
    /\ run.pc = "raised"
    /\ run' = IdleRun
    /\ snap' = NoSnap
    /\ last' = Event("raised", run.force, run.changeset, NoResult, 0)
    /\ prev' = EventTag(last)
    /\ UNCHANGED <<layout, fs, repo, files, merkle, chroma, differVars, pureVars>>

InitRace ==
    /\ layout = TwoFilesLayout
    /\ fs = <<>>
    /\ repo = NoRepo
    /\ files = <<>>
    /\ merkle = <<>>
    /\ chroma = NoCollection
    /\ run = IdleRun
    /\ snap = NoSnap
    /\ last = PlainEvent("init")
    /\ prev = "other"
    /\ DifferIdle
    /\ PureIdle

NextRace ==
    \/ \E p \in Paths, k \in FileKinds : FsWrite(p, k)
    \/ \E p \in Paths : FsRemove(p)
    \/ \E p \in Paths : Vanish(p)
    \/ \E force \in BOOLEAN : BeginIngest(force)
    \/ StepIngest
    \/ ReturnIngest
    \/ RaiseIngest

SpecRace == InitRace /\ [][NextRace]_vars

\* C21: a failure on one file during ingest_repo (its hashing, its read, or
\* its stat after the read) never aborts the run: the call goes on to the
\* other files, the Merkle tree and the timestamp, and returns its summary.
C21_FileFailureNeverAborts == run.pc # "raised"

\* C22: a file of the changeset that cannot be hashed or read during
\* ingest_repo is recorded as a skipped File (skipped = true) and is not
\* chunked.
C22_UnreadableFileIsRecordedSkipped ==
    Ingested =>
        \A p \in last.added \cup last.modified :
            (p \in DOMAIN fs /\ ~fs[p].readable) =>
                /\ p \in DOMAIN files
                /\ files[p].skipped
                /\ DocsOf(chroma, p) = {}

\* C23: a file whose first bytes are a known binary signature is classified
\* binary by the walker whatever its extension or basename: walk never
\* returns it as indexable.
C23_BinarySignatureIsNeverIndexable ==
    ret.done =>
        \A p \in DOMAIN arg.fs :
            arg.fs[p].header = "magic" => p \notin Range(ret.val.result)

----------------------------------------------------------------------------
(* db/client.py and db/migrations.py: the connection singleton of a        *)
(* process and the numbered migrations of its database file                 *)

\* get_current_version: MAX(version) of schema_version, 0 when the table is
\* missing or empty
get_current_version(schema_version) ==
    IF schema_version = {} THEN 0
    ELSE CHOOSE v \in schema_version : \A w \in schema_version : w <= v

clientFrame == <<pipelineVars, differVars, arg, ret, other>>

\* get_connection(db_path) is called: lines 16-25 up to the migration loop
GetConnection ==
    /\ client.pc = "idle"
    /\ client' =
        IF client.connection # "None"
          THEN [client EXCEPT !.result = "connection"]
          ELSE [client EXCEPT !.connection = "open",
                              !.pc = "migrating",
                              !.result = "none",
                              !.current = get_current_version(client.schema_version),
                              !.next = 1]
    /\ UNCHANGED clientFrame

\* run_migrations, lines 86-95: one turn of the loop, or the return of
\* get_connection once the loop is over
MigrateStep ==
    /\ client.pc = "migrating"
    /\ client' =
        IF client.next > Len(MIGRATIONS)
          THEN [client EXCEPT !.pc = "idle", !.result = "connection"]
        ELSE IF MIGRATIONS[client.next] <= client.current
          THEN [client EXCEPT !.next = @ + 1]
        ELSE [client EXCEPT !.executed[MIGRATIONS[client.next]] = @ + 1,
                            !.schema_version = @ \cup {MIGRATIONS[client.next]},
                            !.next = @ + 1]
    /\ UNCHANGED clientFrame

\* a statement of a pending migration raises (disk full, database locked):
\* executescript before it changed anything, or the INSERT into
\* schema_version after the script ran; the exception leaves get_connection
MigrateFail(at) ==
    /\ client.pc = "migrating"
    /\ client.next <= Len(MIGRATIONS)
    /\ client.failures < MaxFailures
    /\ IF client.next <= Len(MIGRATIONS)
         THEN MIGRATIONS[client.next] > client.current ELSE FALSE
    /\ client' =
        [client EXCEPT !.pc = "idle",
                       !.result = "raised",
                       !.failures = @ + 1,
                       !.executed[MIGRATIONS[client.next]] =
                            IF at = "insert" THEN @ + 1 ELSE @]
    /\ UNCHANGED clientFrame

\* the process ends and another one starts on the same database file
Restart ==
    /\ client.pc = "idle"
    /\ client.connection # "None"
    /\ client' = [client EXCEPT !.connection = "None", !.result = "none"]
    /\ UNCHANGED clientFrame

InitClient ==
    /\ PipelineIdle
    /\ PureIdle

NextClient ==
    \/ GetConnection
    \/ MigrateStep
    \/ \E at \in {"script", "insert"} : MigrateFail(at)
    \/ Restart

SpecClient == InitClient /\ [][NextClient]_vars

\* C25: each numbered migration is applied at most once, and get_connection
\* never hands out a connection on which some migration has not been
\* applied, also after an earlier call failed inside run_migrations.
C25_ConnectionHasEveryMigration ==
    /\ \A v \in Range(MIGRATIONS) : client.executed[v] <= 1
    /\ client.result = "connection" => client.schema_version = Range(MIGRATIONS)

----------------------------------------------------------------------------
(* Two ingest_repo calls of two processes on one repository, their store   *)
(* operations interleaved (every query function commits on its own)        *)

\* a create_repo that leaves an existing row alone (INSERT OR IGNORE)
create_repo_ignoring(rp) == FALSE

\* create_repo on the row rp of the name: the INSERT of queries.py:20-27
\* raises sqlite3.IntegrityError when the name, declared UNIQUE, is taken
create_repo_raises(rp) == rp.exists

\* the call numbered w, and its next value
Call(w) == IF w = 1 THEN run ELSE other

SetCall(w, r) ==
    IF w = 1 THEN run' = r /\ other' = other
             ELSE other' = r /\ run' = run

concurrentFrame == <<layout, fs, snap, last, prev, differVars, arg, ret, client>>

\* line 126: the call looks the repository up by name
EnterIngest(w, force) ==
    /\ Call(w).pc = "idle"
    /\ SetCall(w, [IdleRun EXCEPT !.pc = IF repo.exists THEN "lookup_found"
                                                        ELSE "lookup_none",
                                  !.force = force])
    /\ UNCHANGED <<repo, files, merkle, chroma, concurrentFrame>>

\* lines 127-167: the call creates the repository row it did not find, walks
\* and hashes the tree and computes its changeset
ScanIngest(w) ==
    /\ Call(w).pc \in {"lookup_found", "lookup_none"}
    /\ IF Call(w).pc = "lookup_none" /\ create_repo_raises(repo)
         THEN /\ SetCall(w, [Call(w) EXCEPT !.pc = "raised"])
              /\ UNCHANGED <<repo, files, merkle, chroma>>
         ELSE \E o \in WalkOrders(fs) :
                LET c == ingest_begin(Stores, fs, o, Call(w).force) IN
                /\ SetStores(c.st)
                /\ SetCall(w, c.r)
    /\ UNCHANGED concurrentFrame

\* the call performs its next store operation
StepCall(w) ==
    /\ Call(w).pc \notin {"idle", "lookup_found", "lookup_none", "done", "raised"}
    /\ LET c == ingest_step(Stores, Call(w), fs) IN
        /\ SetStores(c.st)
        /\ SetCall(w, c.r)
    /\ UNCHANGED concurrentFrame

\* the call returns its summary, or ends with its exception
EndCall(w) ==
    /\ Call(w).pc \in {"done", "raised"}
    /\ SetCall(w, IdleRun)
    /\ UNCHANGED <<repo, files, merkle, chroma, concurrentFrame>>

\* the tree changes between calls, never under one
WriteBetweenCalls(p, k) == other.pc = "idle" /\ FsWrite(p, k)

RemoveBetweenCalls(p) == other.pc = "idle" /\ FsRemove(p)

InitConcurrent ==
    /\ layout = OneFileLayout
    /\ fs = <<>>
    /\ repo = NoRepo
    /\ files = <<>>
    /\ merkle = <<>>
    /\ chroma = NoCollection
    /\ run = IdleRun
    /\ snap = NoSnap
    /\ last = PlainEvent("init")
    /\ prev = "other"
    /\ DifferIdle
    /\ PureIdle

NextConcurrent ==
    \/ \E p \in Paths, k \in FileKinds : WriteBetweenCalls(p, k)
    \/ \E p \in Paths : RemoveBetweenCalls(p)
    \/ \E w \in {1, 2}, force \in BOOLEAN : EnterIngest(w, force)
    \/ \E w \in {1, 2} : ScanIngest(w)
    \/ \E w \in {1, 2} : StepCall(w)
    \/ \E w \in {1, 2} : EndCall(w)

SpecConcurrent == InitConcurrent /\ [][NextConcurrent]_vars

\* C26: two ingest_repo runs whose store operations interleave are unsafe:
\* when both runs find no repository record, the run that comes second to
\* create it raises, which no sequential order of the two runs does (a run
\* raises only when the other run created the record after its lookup).
C26_LateCreateRaises ==
    [][/\ (run.pc = "lookup_none" /\ repo.exists /\ run' # run) => run'.pc = "raised"
       /\ (other.pc = "lookup_none" /\ repo.exists /\ other' # other)
            => other'.pc = "raised"
       /\ (run'.pc = "raised" /\ run.pc # "raised") => (run.pc = "lookup_none" /\ repo.exists)
       /\ (other'.pc = "raised" /\ other.pc # "raised")
            => (other.pc = "lookup_none" /\ repo.exists)]_vars

\* one run has raised on the record the other run, still in progress, created
C26_Witness ==
    \E w \in {1, 2} :
        /\ Call(w).pc = "raised"
        /\ Call(3 - w).pc \notin {"idle", "lookup_found", "lookup_none", "raised"}
        /\ repo.exists

----------------------------------------------------------------------------
(* ingest_repo step by step on a tree with a file that cannot be read      *)

LockedLayout ==
    [p \in Paths |->
        CASE p = <<"a.py">> -> {FileV1, FileLocked}
          [] p = <<"Makefile">> -> {FileV2}
          [] p = <<"Makefile", "b.py">> -> {}]

InitSteps ==
    /\ layout = LockedLayout
    /\ fs = <<>>
    /\ repo = NoRepo
    /\ files = <<>>
    /\ merkle = <<>>
    /\ chroma = NoCollection
    /\ run = IdleRun
    /\ snap = NoSnap
    /\ last = PlainEvent("init")
    /\ prev = "other"
    /\ DifferIdle
    /\ PureIdle

NextSteps ==
    \/ \E p \in Paths, k \in FileKinds : FsWrite(p, k)
    \/ \E p \in Paths : FsRemove(p)
    \/ \E force \in BOOLEAN : BeginIngest(force)
    \/ StepIngest
    \/ ReturnIngest
    \/ Crash

SpecSteps == InitSteps /\ [][NextSteps]_vars

\* the step writes the indexed File row of p
WritesRow(p) ==
    /\ p \in DOMAIN files'
    /\ ~files'[p].skipped
    /\ (p \in DOMAIN files => files'[p] # files[p])

\* the step writes the Merkle leaf of p
WritesLeaf(p) ==
    /\ IsLeaf(merkle', p)
    /\ (p \in DOMAIN merkle => merkle'[p] # merkle[p])

\* the File row of p carries the hash the call in progress computed for p
RowIsCurrent(p) ==
    /\ p \in DOMAIN files
    /\ ~files[p].skipped
    /\ files[p].content_hash = run.file_hashes[p]

\* C27: at every step of an ingest_repo call in progress, a File row is
\* written only when all chunks of its file are in the vector store, Merkle
\* nodes are written only when every file of the changeset has its File
\* row, and no Merkle leaf is written before the File row of its file.
C27_ChunksThenRowThenMerkle ==
    [][run.pc # "idle" =>
        /\ \A p \in Paths :
             WritesRow(p) =>
                /\ p \in DOMAIN fs
                /\ ChunkIds(p, fs[p]) \subseteq {d.id : d \in DocsOf(chroma, p)}
        /\ merkle' # merkle =>
             \A p \in Range(run.changeset.added \o run.changeset.modified) :
                RowIsCurrent(p)
        /\ \A p \in Paths :
             WritesLeaf(p) =>
                /\ RowIsCurrent(p)
                /\ merkle'[p].node_hash = files[p].content_hash]_vars

----------------------------------------------------------------------------
(* The directory nodes of the stored Merkle tree                           *)

\* the directory nodes of the tree mk, each with its hash
DirNodes(mk) ==
    [d \in {p \in DOMAIN mk : mk[p].is_directory} |-> mk[d].node_hash]

\* build_merkle_tree of the hashes of the files the walker lists now, in
\* listing order o
CurrentTree(o) ==
    LET w == walk(fs, o)
        file_hashes == [p \in Range(w.result) |-> hash_file(fs[p])]
    IN build_merkle_tree(file_hashes, w.result)

\* C28: after every completed ingest_repo that detected changes, the stored
\* directory nodes and their hashes are the directory nodes of
\* build_merkle_tree applied to the current file hashes, the node "."
\* included, also when files or whole directories were deleted.
C28_DirNodesAreRebuilt ==
    (Ingested /\ ~NoChanges(last)) =>
        \A o \in WalkOrders(fs) : DirNodes(merkle) = DirNodes(CurrentTree(o))

----------------------------------------------------------------------------
(* The size of the chunks of the language chunkers                         *)

\* the sum of the per-line token estimates of the lines idx
RECURSIVE TokenSum(_, _)
TokenSum(idx, lines) ==
    IF idx = <<>> THEN 0
    ELSE estimate_tokens(lines[Head(idx)].len) + TokenSum(Tail(idx), lines)

\* the chunker of the extension emitted the import header as chunk 0
HasHeaderChunk(ext, lines) ==
    header_chunks(lines, IF ext = ".go" THEN go_header_end(lines, 1, FALSE)
                                        ELSE header_end(lines, 1)) # <<>>

\* C29: in every language chunker a split is forced whenever a line would
\* push a non-empty buffer over 1.5 * token_target, so every chunk other
\* than the header chunk is a single line or has a running token count of
\* at most 1.5 * token_target (overlap_tokens <= 0.5 * token_target).
C29_ChunkIsOneLineOrWithinLimit ==
    (ret.done /\ arg.ext # ".md" /\ 2 * overlap_tokens <= token_target) =>
        \A i \in 1..Len(ret.val) :
            \/ i = 1 /\ HasHeaderChunk(arg.ext, arg.lines)
            \/ Len(ret.val[i].lines) = 1
            \/ 2 * TokenSum(ret.val[i].lines, arg.lines) <= 3 * token_target

----------------------------------------------------------------------------
(* Decorators and definitions in the chunks of the Python chunker          *)

KindAt(k) == arg.lines[k].kind

\* the def/class lines among the lines idx of the content
DefLines(idx) == {k \in Range(idx) : KindAt(k) = "def"}

\* C30: in the Python chunker a decorator line is in the chunk of the line
\* that follows it when that is a decorator or a def/class, a def/class line
\* has only decorator (and blank) lines before it in its chunk, and so no
\* chunk holds two def/class lines (its symbol is the def/class it begins
\* with).
C30_OneDefPerChunk ==
    (ret.done /\ arg.ext = ".py") =>
        \A i \in 1..Len(ret.val) :
            LET c == ret.val[i].lines IN
            /\ \A k \in 1..(Len(arg.lines) - 1) :
                    (KindAt(k) = "decorator" /\ KindAt(k + 1) \in {"decorator", "def"}) =>
                        (k \in Range(c) <=> k + 1 \in Range(c))
            /\ \A j \in 1..Len(c) :
                    KindAt(c[j]) = "def" =>
                        \A m \in 1..(j - 1) : KindAt(c[m]) \in {"decorator", "blank"}
            /\ Cardinality(DefLines(c)) <= 1

----------------------------------------------------------------------------
(* The symbol fields of the chunks of the language chunkers                *)

\* _is_block_start(line) of the chunker of the extension
is_block_start(ext, line) ==
    CASE ext = ".py" -> line.kind \in {"def", "decorator"}
      [] ext = ".ts" -> line.kind \in {"def", "import", "import_open"}
      [] ext = ".java" -> line.kind \in {"def", "decorator", "import", "import_open"}
      [] ext = ".go" -> line.kind \in {"def", "import", "import_open"}
      [] OTHER -> FALSE

\* chunk k, not the first one, begins with lines carried over from chunk
\* k - 1 or at a line that is no block start: it began at a forced split
BeginsAtForcedSplit(k) ==
    /\ k > 1
    /\ \/ ret.val[k].start_line <= ret.val[k - 1].end_line
       \/ ~is_block_start(arg.ext, arg.lines[ret.val[k].lines[1]])

\* C31: in every language chunker a chunk carries a symbol_name and
\* symbol_type only if its first line is a block-start line of the language,
\* and a chunk that begins at a forced split carries none.
C31_SymbolOnlyAtBlockStart ==
    (ret.done /\ arg.ext # ".md") =>
        \A k \in 1..Len(ret.val) :
            /\ ret.val[k].symbol # 0 =>
                    is_block_start(arg.ext, arg.lines[ret.val[k].lines[1]])
            /\ BeginsAtForcedSplit(k) => ret.val[k].symbol = 0

----------------------------------------------------------------------------
(* The overlap of the generic and TS/JS chunkers                           *)

\* the number of lines of chunk k + 1 that chunk k holds too
OverlapOf(k) ==
    Cardinality({x \in Range(ret.val[k + 1].lines) : x \in Range(ret.val[k].lines)})

\* C32: in the generic and TS/JS chunkers the lines a chunk shares with the
\* chunk emitted before it are a suffix of that chunk and the first lines of
\* the new one, their token estimates sum to at most overlap_tokens, and the
\* new chunk's start_line lies that many lines before the line that follows
\* the earlier chunk; after a blank-line split nothing is shared.
C32_OverlapIsBoundedSuffix ==
    (ret.done /\ arg.ext \in {".md", ".ts"}) =>
        \A k \in 1..(Len(ret.val) - 1) :
            LET A == ret.val[k].lines
                B == ret.val[k + 1].lines
                n == OverlapOf(k)
            IN /\ n < Len(B)
               /\ n <= Len(A)
               /\ SubSeq(B, 1, n) = SubSeq(A, Len(A) - n + 1, Len(A))
               /\ TokenSum(SubSeq(B, 1, n), arg.lines) <= overlap_tokens
               /\ ret.val[k + 1].start_line = B[n + 1] - n
               /\ ret.val[k + 1].start_line > ret.val[k].end_line => n = 0

\* a forced split has carried a line over into the next chunk
C32_Witness ==
    /\ ret.done
    /\ arg.ext \in {".md", ".ts"}
    /\ \E k \in 1..(Len(ret.val) - 1) : OverlapOf(k) > 0

----------------------------------------------------------------------------
(* The Python, Java/Kotlin and Go chunkers do not overlap                  *)

\* C33: in the Python, Java/Kotlin and Go chunkers every chunk ends before
\* the next one starts, so no line belongs to two chunks.
C33_NoLineInTwoChunks ==
    (ret.done /\ arg.ext \in {".py", ".java", ".go"}) =>
        /\ \A k \in 1..(Len(ret.val) - 1) :
                ret.val[k].end_line < ret.val[k + 1].start_line
        /\ \A j, k \in 1..Len(ret.val) :
                j # k => Range(ret.val[j].lines) \cap Range(ret.val[k].lines) = {}

\* one of the three chunkers has split a buffer by force
C33_Witness ==
    /\ ret.done
    /\ arg.ext \in {".py", ".java", ".go"}
    /\ Len(ret.val) >= 2
    /\ BeginsAtForcedSplit(2)

----------------------------------------------------------------------------
(* ingest_repo with force=True as a full rebuild                           *)

\* the chunks chunk_file cuts the files now indexable (and readable) into,
\* as <<path, identifier>> pairs
CurrentChunks ==
    UNION {{<<p, id>> : id \in ChunkIds(p, fs[p])} :
                p \in {q \in DOMAIN fs : Indexable(fs, q) /\ fs[q].readable}}

\* C34: when ingest_repo with force=True has completed, the collection
\* holds exactly the chunks of the current content of the files that are
\* indexable now: no chunk of superseded content or of a vanished file.
C34_ForceIsFullRebuild ==
    (Ingested /\ last.force) =>
        {<<d.file_path, d.id>> : d \in chroma.docs} = CurrentChunks

----------------------------------------------------------------------------
(* Several repositories in one metadata store and one vector store:        *)
(* ingest_repo(repo_path, name) and purge(name) on two names and two       *)
(* directories                                                             *)

\* the longest collection name ChromaDB takes
SlugMax == 63

\* the shortest one
SlugMin == 3

\* the characters repository names are made of
NameChars == {"a", "A", " ", "-", "!"}

\* the longest name drawn
MaxNameLen == 2

RepoNames == UNION {[1..n -> NameChars] : n \in 1..MaxNameLen}

\* str.lower, on one character
Lower(c) == IF c = "A" THEN "a" ELSE c

\* .replace(" ", "-").replace("/", "-").replace(".", "-"), on one character
Dashed(c) == IF c \in {" ", "/", "."} THEN "-" ELSE c

\* c.isalnum() or c in "-_"
SlugChar(c) == c \in {"a", "A", "-", "_"}

\* while len(slug) < 3: slug += "_"
RECURSIVE PadSlug(_)
PadSlug(slug) == IF Len(slug) < SlugMin THEN PadSlug(Append(slug, "_")) ELSE slug

\* _slugify(name)
slugify(name) ==
    LET dashed == [i \in 1..Len(name) |-> Dashed(Lower(name[i]))]
        padded == PadSlug(SelectSeq(dashed, SlugChar))
    IN SubSeq(padded, 1, Min(SlugMax, Len(padded)))

\* the two directories ingested, each with its file tree
RepoDirs == {"d1", "d2"}

DirFs(d) == IF d = "d1" THEN (<<"a.py">> :> FileV1) ELSE (<<"a.py">> :> FileV2)

\* no row of the name in the repositories table
NoRow ==
    [exists |-> FALSE, path |-> "", collection_name |-> <<>>, ingested_at |-> "NULL",
     files |-> <<>>, merkle |-> <<>>]

\* the state of the stores: the repositories row of each name with its File
\* and Merkle rows, and the collections by name
RepoStores == ret.val

\* ingest_repo(conn, settings, repo_path=d, name=names[r]), lines 115-133
\* and on: the row is looked up by name, created with path and collection
\* name when missing, and the run works on the row's collection
ingest_named(rs, names, r, d, o) ==
    LET row == rs.rows[r]
        collection_name == IF row.exists THEN row.collection_name ELSE slugify(names[r])
        st == [repo |-> [exists |-> row.exists, ingested_at |-> row.ingested_at],
               files |-> row.files,
               merkle |-> row.merkle,
               chroma |-> rs.colls[collection_name]]
        c == ingest_repo(st, DirFs(d), o, FALSE)
    IN [rows |-> [rs.rows EXCEPT ![r] =
                    [exists |-> TRUE,
                     path |-> IF row.exists THEN row.path ELSE d,
                     collection_name |-> collection_name,
                     ingested_at |-> c.st.repo.ingested_at,
                     files |-> c.st.files,
                     merkle |-> c.st.merkle]],
        colls |-> [rs.colls EXCEPT ![collection_name] = c.st.chroma],
        last |-> [op |-> "ingest_repo", r |-> r, path |-> d]]

\* craigpy purge NAME (cli/main.py:251-262): the row's collection is deleted,
\* then the row with its File and Merkle rows
purge_named(rs, r) ==
    [rows |-> [rs.rows EXCEPT ![r] = NoRow],
     colls |-> [rs.colls EXCEPT ![rs.rows[r].collection_name] = NoCollection],
     last |-> [op |-> "purge", r |-> r, path |-> ""]]

IngestNamed(r, d) ==
    /\ \E o \in WalkOrders(DirFs(d)) :
            ret' = [done |-> TRUE, val |-> ingest_named(RepoStores, arg.names, r, d, o)]
    /\ UNCHANGED <<pipelineVars, differVars, arg, client, other>>

PurgeNamed(r) ==
    /\ RepoStores.rows[r].exists
    /\ ret' = [done |-> TRUE, val |-> purge_named(RepoStores, r)]
    /\ UNCHANGED <<pipelineVars, differVars, arg, client, other>>

InitRepos ==
    /\ PipelineIdle
    /\ \E n1, n2 \in RepoNames :
        /\ n1 # n2
        /\ arg = [names |-> <<n1, n2>>]
        /\ ret = [done |-> FALSE,
                  val |-> [rows |-> [r \in {1, 2} |-> NoRow],
                           colls |-> [cn \in {slugify(n1), slugify(n2)} |-> NoCollection],
                           last |-> [op |-> "init", r |-> 0, path |-> ""]]]
    /\ client = NoClient
    /\ other = IdleRun

NextRepos ==
    \/ \E r \in {1, 2}, d \in RepoDirs : IngestNamed(r, d)
    \/ \E r \in {1, 2} : PurgeNamed(r)

SpecRepos == InitRepos /\ [][NextRepos]_vars

\* the collection the repository of name r uses
CollectionOf(rs, r) == rs.colls[rs.rows[r].collection_name]

\* C35: two repositories with different names use different collections, so
\* an ingest or a purge of one repository leaves every chunk of the other
\* repository as it was.
C35_RepositoriesAreIsolated ==
    [][\A r \in {1, 2} :
        LET q == 3 - r IN
        (ret'.val.last.r = r /\ ret.val.rows[q].exists) =>
            /\ ret'.val.rows[r].exists =>
                    ret'.val.rows[r].collection_name # ret.val.rows[q].collection_name
            /\ CollectionOf(ret'.val, q) = CollectionOf(ret.val, q)]_vars

\* C39: after a completed ingest_repo(repo_path, name) the repository row
\* of the name has path = the repo_path that was walked, also when a row of
\* that name existed before.
C39_StoredPathIsWalkedPath ==
    ret.val.last.op = "ingest_repo" =>
        ret.val.rows[ret.val.last.r].path = ret.val.last.path

----------------------------------------------------------------------------
(* Merkle leaves and the index                                             *)

\* C36: after a completed ingest_repo every file with a stored Merkle leaf
\* has a File row with skipped = false and the leaf's hash, and its chunks
\* are in the vector store: no file counts as up to date without having
\* been indexed, also when reading it failed during the run.
C36_LeafMeansIndexed ==
    Ingested =>
        \A p \in DOMAIN merkle :
            IsLeaf(merkle, p) =>
                /\ p \in DOMAIN files
                /\ ~files[p].skipped
                /\ files[p].content_hash = merkle[p].node_hash
                /\ files[p].chunk_count <= Cardinality(DocsOf(chroma, p))

----------------------------------------------------------------------------
(* What the chunks keep of the content                                     *)

\* line k of the content lies in the line range of some chunk
InSomeRange(k) ==
    \E i \in 1..Len(ret.val) :
        ret.val[i].start_line <= k /\ k <= ret.val[i].end_line

\* C37: for each of the five chunkers every line with a non-whitespace
\* character lies in the line range of at least one chunk; so a content
\* that is not whitespace only yields at least one chunk.
C37_NoTextLineIsLost ==
    ret.done =>
        /\ \A k \in 1..Len(arg.lines) :
                arg.lines[k].kind # "blank" => InSomeRange(k)
        /\ (\E k \in 1..Len(arg.lines) : arg.lines[k].kind # "blank") => ret.val # <<>>

\* C38: for each of the five chunkers the content of every chunk is the
\* concatenation of the lines start_line..end_line of the input, in order
\* and complete.
C38_ContentIsTheLineRange ==
    ret.done =>
        \A i \in 1..Len(ret.val) :
            ret.val[i].lines =
                [j \in 1..(ret.val[i].end_line - ret.val[i].start_line + 1) |->
                    ret.val[i].start_line + j - 1]

\* a chunk of several lines that starts inside the content
C38_Witness ==
    /\ ret.done
    /\ \E i \in 1..Len(ret.val) :
            ret.val[i].start_line > 1 /\ Len(ret.val[i].lines) >= 2

====
